---- MODULE Spec2Model ----
(***************************************************************************)
(* Model of the retro stock scanner: the indicator library                 *)
(* (src/src/indicators.rs) and the parallel scan engine                    *)
(* (src/src/scanner.rs).                                                   *)
(*                                                                         *)
(* f64 is modelled as a binary floating-point format with MantBits bits of *)
(* significand, round-to-nearest-even, NaN and the two infinities.  The    *)
(* exponent range is not bounded (no value of the model comes near the     *)
(* f64 overflow threshold) and the sign of zero is not kept.  Vec indices  *)
(* are 0-based in the source and 1-based here: At(s, i) reads s[i].        *)
(***************************************************************************)
EXTENDS Integers, Sequences, FiniteSets, TLC

\* ------------------------------------------------------------------------
\* Bounds of the model
\* ------------------------------------------------------------------------
\* significand width of the modelled float format (f64 has 53)
MantBits == 8

\* ------------------------------------------------------------------------
\* f64
\* ------------------------------------------------------------------------
RECURSIVE Pow2(_)
Pow2(k) == IF k = 0 THEN 1 ELSE 2 * Pow2(k - 1)

Abs(n) == IF n < 0 THEN 0 - n ELSE n

\* f64::NAN, f64::INFINITY, f64::NEG_INFINITY and the finite value n/d
NAN == <<"nan", 0, 1>>
INFINITY == <<"inf", 1, 1>>
NEG_INFINITY == <<"inf", -1, 1>>

\* significands lie in MantLo..(MantHi - 1)
MantLo == Pow2(MantBits - 1)
MantHi == Pow2(MantBits)

RECURSIVE Norm(_, _)
Norm(n, d) == IF d > 1 /\ n % 2 = 0 THEN Norm(n \div 2, d \div 2) ELSE <<"fin", n, d>>

RECURSIVE ScaleUp(_, _, _)
ScaleUp(a, d, u) ==
    IF a < MantLo * d THEN ScaleUp(2 * a, d, 2 * u) ELSE <<a, u>>

RECURSIVE ScaleDown(_, _, _)
ScaleDown(a, d, w) ==
    IF a >= MantHi * d THEN ScaleDown(a, 2 * d, 2 * w) ELSE <<d, w>>

\* a / d rounded to an integer, ties to the even one
RoundDiv(a, d) ==
    LET q == a \div d
        r == a % d
    IN  IF 2 * r > d \/ (2 * r = d /\ q % 2 = 1) THEN q + 1 ELSE q

\* the significand up[1] / dn[1] rounded, times the scale dn[2] / up[2]
FlScaled(s, up, dn) == Norm(s * RoundDiv(up[1], dn[1]) * dn[2], up[2])

FlUp(s, up, d) == FlScaled(s, up, ScaleDown(up[1], d, 1))

\* the f64 nearest to the real n/d (d > 0), ties to the even significand
Fl(n, d) ==
    IF n = 0 THEN <<"fin", 0, 1>>
    ELSE FlUp(IF n < 0 THEN -1 ELSE 1, ScaleUp(Abs(n), d, 1), d)

\* an integer literal (as f64)
F(n) == Fl(n, 1)

is_nan(x) == x[1] = "nan"
IsInf(x) == x[1] = "inf"
IsFin(x) == x[1] = "fin"

Neg(x) == IF is_nan(x) THEN NAN ELSE <<x[1], 0 - x[2], x[3]>>

\* a + b
Add(a, b) ==
    IF is_nan(a) \/ is_nan(b) THEN NAN
    ELSE IF IsInf(a) THEN (IF IsInf(b) /\ b[2] # a[2] THEN NAN ELSE a)
    ELSE IF IsInf(b) THEN b
    ELSE Fl(a[2] * b[3] + b[2] * a[3], a[3] * b[3])

\* a - b
Sub(a, b) == Add(a, Neg(b))

Sign(x) == IF x[2] < 0 THEN -1 ELSE IF x[2] > 0 THEN 1 ELSE 0

\* a * b
Mul(a, b) ==
    IF is_nan(a) \/ is_nan(b) THEN NAN
    ELSE IF IsInf(a) \/ IsInf(b)
         THEN (IF Sign(a) * Sign(b) = 0 THEN NAN ELSE <<"inf", Sign(a) * Sign(b), 1>>)
    ELSE Fl(a[2] * b[2], a[3] * b[3])

\* a / b: x/0 is an infinity, 0/0 and inf/inf are NaN
Div(a, b) ==
    IF is_nan(a) \/ is_nan(b) THEN NAN
    ELSE IF IsInf(a) THEN (IF IsInf(b) THEN NAN
                           ELSE <<"inf", a[2] * (IF Sign(b) < 0 THEN -1 ELSE 1), 1>>)
    ELSE IF IsInf(b) THEN <<"fin", 0, 1>>
    ELSE IF b[2] = 0 THEN (IF a[2] = 0 THEN NAN ELSE <<"inf", Sign(a), 1>>)
    ELSE Fl(a[2] * b[3] * Sign(b), a[3] * Abs(b[2]))

\* a < b (false when either side is NaN)
Lt(a, b) ==
    /\ ~is_nan(a)
    /\ ~is_nan(b)
    /\ IF IsInf(a) THEN a[2] < 0 /\ b # a
       ELSE IF IsInf(b) THEN b[2] > 0
       ELSE a[2] * b[3] < b[2] * a[3]

Gt(a, b) == Lt(b, a)
\* a == b (false when either side is NaN)
Eq(a, b) == ~is_nan(a) /\ ~is_nan(b) /\ a = b
Ne(a, b) == ~Eq(a, b)
Le(a, b) == Lt(a, b) \/ Eq(a, b)
Ge(a, b) == Lt(b, a) \/ Eq(a, b)

\* f64::max, f64::min: the other operand when one is NaN
FMax(a, b) == IF is_nan(a) THEN b ELSE IF is_nan(b) THEN a ELSE IF Lt(a, b) THEN b ELSE a
FMin(a, b) == IF is_nan(a) THEN b ELSE IF is_nan(b) THEN a ELSE IF Lt(b, a) THEN b ELSE a

\* f64::abs
FAbs(x) == IF is_nan(x) THEN NAN ELSE <<x[1], Abs(x[2]), x[3]>>

\* scale a / e by a power of 4 into [MantLo^2, MantHi^2)
RECURSIVE Up4(_, _, _)
Up4(a, e, u) == IF a < MantLo * MantLo * e THEN Up4(4 * a, e, 2 * u) ELSE <<a, u>>

RECURSIVE Dn4(_, _, _)
Dn4(a, e, w) == IF a >= MantHi * MantHi * e THEN Dn4(a, 4 * e, 2 * w) ELSE <<e, w>>

\* the integer nearest to the square root of a / e
RoundSqrt(a, e) ==
    LET q == CHOOSE m \in MantLo..MantHi : m * m * e <= a /\ (m + 1) * (m + 1) * e > a
    IN  IF 4 * a > (2 * q + 1) * (2 * q + 1) * e THEN q + 1 ELSE q

SqrtScaled(up, dn) == Norm(RoundSqrt(up[1], dn[1]) * dn[2], up[2])

SqrtUp(up, d) == SqrtScaled(up, Dn4(up[1], d, 1))

\* f64::sqrt of n/d, correctly rounded
SqrtFin(n, d) ==
    IF n = 0 THEN <<"fin", 0, 1>> ELSE SqrtUp(Up4(n, d, 1), d)

Sqrt(x) ==
    IF is_nan(x) THEN NAN
    ELSE IF IsInf(x) THEN (IF x[2] > 0 THEN x ELSE NAN)
    ELSE IF x[2] < 0 THEN NAN
    ELSE SqrtFin(x[2], x[3])

\* s[i] of a Vec or slice, i counted from 0
At(s, i) == s[i + 1]


\* the outcome of a call that may panic: Ok(v) is a return, PANIC an unwinding
Ok(v) == [ok |-> TRUE, v |-> v]
PANIC == [ok |-> FALSE, v |-> <<>>]

\* vec![x; n]
Fill(x, n) == [i \in 1..n |-> x]

\* body(x), with x computed before body is entered
Then(body(_), x) == CHOOSE y \in {body(v) : v \in {x}} : TRUE

\* for i in lo..hi { st = body(i, st) }: the first half of the range runs
\* before the second
RECURSIVE ForRange(_, _, _, _)
ForRange(body(_, _), lo, hi, st) ==
    IF lo >= hi THEN st
    ELSE IF hi = lo + 1 THEN body(lo, st)
    ELSE Then(LAMBDA s : ForRange(body, (lo + hi) \div 2, hi, s),
              ForRange(body, lo, (lo + hi) \div 2, st))

\* data[lo..hi].iter().sum::<f64>(): left-to-right from acc
SumRange(data, lo, hi, acc) ==
    ForRange(LAMBDA i, sum : Add(sum, At(data, i)), lo, hi, acc)

\* ------------------------------------------------------------------------
\* indicators.rs
\* ------------------------------------------------------------------------
\* result[i] = sum / period
sma_store(period, i, sum, result) ==
    [sum |-> sum, result |-> [result EXCEPT ![i + 1] = Div(sum, F(period))]]

\* sum += data[i] - data[i - period]; result[i] = sum / period
sma_loop(data, period, i, st) ==
    sma_store(period, i, Add(st.sum, Sub(At(data, i), At(data, i - period))), st.result)

\* (mutant) a series shorter than the period is averaged over what there is
sma_clipped(data, period) ==
    IF Len(data) = 0 \/ period = 0 THEN Fill(NAN, Len(data))
    ELSE LET p == IF Len(data) < period THEN Len(data) ELSE period
         IN  ForRange(LAMBDA i, st : sma_loop(data, p, i, st), p, Len(data),
                      sma_store(p, p - 1, SumRange(data, 0, p, F(0)),
                                Fill(NAN, Len(data)))).result

\* (mutant) the output starts as vec![0.0; n]
sma_zero_filled(data, period) ==
    IF Len(data) < period \/ period = 0 THEN Fill(F(0), Len(data))
    ELSE ForRange(LAMBDA i, st : sma_loop(data, period, i, st), period, Len(data),
                  sma_store(period, period - 1, SumRange(data, 0, period, F(0)),
                            Fill(F(0), Len(data)))).result

\* Simple Moving Average, by a rolling sum
sma(data, period) ==
    IF Len(data) < period \/ period = 0 THEN Fill(NAN, Len(data))
    ELSE ForRange(LAMBDA i, st : sma_loop(data, period, i, st), period, Len(data),
                  sma_store(period, period - 1, SumRange(data, 0, period, F(0)),
                            Fill(NAN, Len(data)))).result

\* result[i] = (data[i] - result[i - 1]) * multiplier + result[i - 1]
ema_loop(data, multiplier, i, result) ==
    [result EXCEPT ![i + 1] =
        Add(Mul(Sub(At(data, i), At(result, i - 1)), multiplier), At(result, i - 1))]

\* (mutant) the seed is the value at index period - 1 itself
ema_seeded_by_value(data, period) ==
    IF Len(data) < period \/ period = 0 THEN Fill(NAN, Len(data))
    ELSE ForRange(LAMBDA i, result :
                      ema_loop(data, Div(F(2), Add(F(period), F(1))), i, result),
                  period, Len(data),
                  [Fill(NAN, Len(data)) EXCEPT ![period] = At(data, period - 1)])

\* Exponential Moving Average, seeded with the mean of the first period values
ema(data, period) ==
    IF Len(data) < period \/ period = 0 THEN Fill(NAN, Len(data))
    ELSE ForRange(LAMBDA i, result :
                      ema_loop(data, Div(F(2), Add(F(period), F(1))), i, result),
                  period, Len(data),
                  [Fill(NAN, Len(data)) EXCEPT
                      ![period] = Div(SumRange(data, 0, period, F(0)), F(period))])

\* (mutant) avg_loss is not tested for zero
rsi_value_unguarded(avg_gain, avg_loss) ==
    Sub(F(100), Div(F(100), Add(F(1), Div(avg_gain, avg_loss))))

\* 100 when avg_loss is zero, else 100 - 100 / (1 + avg_gain / avg_loss)
rsi_value(avg_gain, avg_loss) ==
    IF Eq(avg_loss, F(0)) THEN F(100)
    ELSE Sub(F(100), Div(F(100), Add(F(1), Div(avg_gain, avg_loss))))

\* gains[i], losses[i] of rsi: index 0 is 0.0
rsi_gain(data, i) ==
    IF i = 0 THEN F(0)
    ELSE LET change == Sub(At(data, i), At(data, i - 1))
         IN  IF Gt(change, F(0)) THEN change ELSE F(0)

rsi_loss(data, i) ==
    IF i = 0 THEN F(0)
    ELSE LET change == Sub(At(data, i), At(data, i - 1))
         IN  IF Gt(change, F(0)) THEN F(0) ELSE Neg(change)

\* result[i] = the RSI of the two averages
rsi_store(i, avg_gain, avg_loss, result) ==
    [avg_gain |-> avg_gain, avg_loss |-> avg_loss,
     result |-> [result EXCEPT ![i + 1] = rsi_value(avg_gain, avg_loss)]]

\* Wilder's smoothing: avg = (avg * (period - 1) + new) / period
rsi_loop(data, period, i, st) ==
    rsi_store(i,
              Div(Add(Mul(st.avg_gain, F(period - 1)), rsi_gain(data, i)), F(period)),
              Div(Add(Mul(st.avg_loss, F(period - 1)), rsi_loss(data, i)), F(period)),
              st.result)

\* Relative Strength Index (Wilder's smoothing)
rsi(data, period) ==
    IF Len(data) < period + 1 \/ period = 0 THEN Fill(NAN, Len(data))
    ELSE ForRange(LAMBDA i, st : rsi_loop(data, period, i, st), period + 1, Len(data),
             rsi_store(period,
                 Div(SumRange([i \in 1..Len(data) |-> rsi_gain(data, i - 1)],
                              1, period + 1, F(0)), F(period)),
                 Div(SumRange([i \in 1..Len(data) |-> rsi_loss(data, i - 1)],
                              1, period + 1, F(0)), F(period)),
                 Fill(NAN, Len(data)))).result

\* result[i] = result[i - 1] +/- volume[i], by the direction of the close
obv_loop(close, volume, i, result) ==
    [result EXCEPT ![i + 1] =
        IF Gt(At(close, i), At(close, i - 1))
        THEN Add(At(result, i - 1), At(volume, i))
        ELSE IF Lt(At(close, i), At(close, i - 1))
        THEN Sub(At(result, i - 1), At(volume, i))
        ELSE At(result, i - 1)]

\* On-Balance Volume
obv(close, volume) ==
    ForRange(LAMBDA i, result : obv_loop(close, volume, i, result), 1, Len(close),
             Fill(F(0), Len(close)))

\* MACD line: ema(fast) - ema(slow)
macd(data, fast, slow) ==
    LET ema_fast == ema(data, fast)
        ema_slow == ema(data, slow)
    IN  [i \in 1..Len(data) |-> Sub(ema_fast[i], ema_slow[i])]

\* MACD signal line: ema of the MACD line
macd_signal(data, fast, slow, signal) == ema(macd(data, fast, slow), signal)

\* data[lo..=hi].iter().map(|x| (x - mean).powi(2)).sum::<f64>()
SumSqDev(data, lo, hi, mean, acc) ==
    ForRange(LAMBDA i, sum :
                 Add(sum, Mul(Sub(At(data, i), mean), Sub(At(data, i), mean))),
             lo, hi + 1, acc)

\* mean + sgn * num_std * std_dev over the window ending at i
band_at(data, period, num_std, mean, i, sgn) ==
    Add(mean, Mul(Mul(F(sgn), num_std),
                  Sqrt(Div(SumSqDev(data, i + 1 - period, i, mean, F(0)), F(period)))))

bands_around(data, period, num_std, middle) ==
    <<middle,
      [i \in 1..Len(data) |->
          IF period = 0 \/ i - 1 < period - 1 THEN NAN
          ELSE band_at(data, period, num_std, middle[i], i - 1, 1)],
      [i \in 1..Len(data) |->
          IF period = 0 \/ i - 1 < period - 1 THEN NAN
          ELSE band_at(data, period, num_std, middle[i], i - 1, -1)]>>

\* Bollinger Bands: <<middle, upper, lower>>.  period - 1 underflows when
\* period is 0: a panic with overflow checks, else an empty range
bollinger(data, period, num_std, oc) ==
    IF period = 0 /\ oc THEN PANIC
    ELSE Ok(bands_around(data, period, num_std, sma(data, period)))

\* data[lo..=hi].iter().fold(init, f64::max)
FoldMax(data, lo, hi, acc) ==
    ForRange(LAMBDA i, a : FMax(a, At(data, i)), lo, hi + 1, acc)

\* data[lo..=hi].iter().fold(init, f64::min)
FoldMin(data, lo, hi, acc) ==
    ForRange(LAMBDA i, a : FMin(a, At(data, i)), lo, hi + 1, acc)

\* Rolling Maximum over data[i+1-period..=i]
rolling_max(data, period, oc) ==
    IF period = 0 THEN (IF oc THEN PANIC ELSE Ok(Fill(NAN, Len(data))))
    ELSE Ok([i \in 1..Len(data) |->
                IF i - 1 < period - 1 THEN NAN
                ELSE FoldMax(data, i - period, i - 1, NEG_INFINITY)])

\* Rolling Minimum over data[i+1-period..=i]
rolling_min(data, period, oc) ==
    IF period = 0 THEN (IF oc THEN PANIC ELSE Ok(Fill(NAN, Len(data))))
    ELSE Ok([i \in 1..Len(data) |->
                IF i - 1 < period - 1 THEN NAN
                ELSE FoldMin(data, i - period, i - 1, INFINITY)])

\* (mutant) "not above before" is written !(a[i-1] > b[i-1]), without the
\* NaN tests
crossed_above_negated(a, b) ==
    [i \in 1..Len(a) |->
        /\ i > 1
        /\ Gt(a[i], b[i]) /\ ~Gt(a[i - 1], b[i - 1])]

\* (mutant) a must have been strictly below b before
crossed_above_from_below(a, b) ==
    [i \in 1..Len(a) |->
        /\ i > 1
        /\ ~is_nan(a[i]) /\ ~is_nan(b[i]) /\ ~is_nan(a[i - 1]) /\ ~is_nan(b[i - 1])
        /\ Gt(a[i], b[i]) /\ Lt(a[i - 1], b[i - 1])]

\* Crossed above: a[i] > b[i] after a[i-1] <= b[i-1], all four defined
crossed_above(a, b) ==
    [i \in 1..Len(a) |->
        /\ i > 1
        /\ ~is_nan(a[i]) /\ ~is_nan(b[i]) /\ ~is_nan(a[i - 1]) /\ ~is_nan(b[i - 1])
        /\ Gt(a[i], b[i]) /\ Le(a[i - 1], b[i - 1])]

\* Crossed below: a[i] < b[i] after a[i-1] >= b[i-1], all four defined
crossed_below(a, b) ==
    [i \in 1..Len(a) |->
        /\ i > 1
        /\ ~is_nan(a[i]) /\ ~is_nan(b[i]) /\ ~is_nan(a[i - 1]) /\ ~is_nan(b[i - 1])
        /\ Lt(a[i], b[i]) /\ Ge(a[i - 1], b[i - 1])]

\* (mutant) data[i] is compared with the extreme of the window that ends at i
extreme_loop_current(data, prev, higher, i, result) ==
    [result EXCEPT ![i + 1] =
        /\ ~is_nan(At(data, i))
        /\ ~is_nan(At(prev, i))
        /\ IF higher THEN Gt(At(data, i), At(prev, i))
           ELSE Lt(At(data, i), At(prev, i))]

\* result[i] = true when data[i] is beyond prev[i - 1], both defined
extreme_loop(data, prev, higher, i, result) ==
    [result EXCEPT ![i + 1] =
        /\ ~is_nan(At(data, i))
        /\ ~is_nan(At(prev, i - 1))
        /\ IF higher THEN Gt(At(data, i), At(prev, i - 1))
           ELSE Lt(At(data, i), At(prev, i - 1))]

\* the loop of higher_high / lower_low from i = lookback: prev[i - 1] at
\* i = 0 is an underflow or out of bounds, a panic in every build
extreme_from(data, prev, higher, lookback) ==
    IF ~prev.ok THEN PANIC
    ELSE IF lookback = 0 /\ Len(data) > 0 THEN PANIC
    ELSE Ok(ForRange(LAMBDA i, result : extreme_loop(data, prev.v, higher, i, result),
                     lookback, Len(data), Fill(FALSE, Len(data))))

\* Higher high: value > rolling max of the previous lookback values
higher_high(data, lookback, oc) ==
    extreme_from(data, rolling_max(data, lookback, oc), TRUE, lookback)

\* Lower low: value < rolling min of the previous lookback values
lower_low(data, lookback, oc) ==
    extreme_from(data, rolling_min(data, lookback, oc), FALSE, lookback)

\* (mutant) the base of the change is not tested for 0
pct_change_unguarded(data, periods) ==
    [i \in 1..Len(data) |->
        IF i - 1 >= periods
        THEN Mul(Div(Sub(data[i], At(data, i - 1 - periods)),
                     At(data, i - 1 - periods)), F(100))
        ELSE NAN]

\* Percent change over periods bars; NaN when the base is 0 or i < periods
pct_change(data, periods) ==
    [i \in 1..Len(data) |->
        IF i - 1 >= periods /\ Ne(At(data, i - 1 - periods), F(0))
        THEN Mul(Div(Sub(data[i], At(data, i - 1 - periods)),
                     At(data, i - 1 - periods)), F(100))
        ELSE NAN]

volume_over(volume, avg) ==
    [i \in 1..Len(volume) |->
        IF Gt(avg[i], F(0)) /\ ~is_nan(avg[i]) THEN Div(volume[i], avg[i]) ELSE NAN]

\* Volume ratio: volume / rolling mean volume; NaN unless the mean is > 0
volume_ratio(volume, period) == volume_over(volume, sma(volume, period))

\* Is above threshold (NaN is not)
\* (mutant) the undefined values are skipped, not mapped to false
above_skipping_nan(data, threshold) ==
    LET defined == SelectSeq(data, LAMBDA x : ~is_nan(x))
    IN  [i \in 1..Len(defined) |-> Gt(defined[i], threshold)]

above(data, threshold) ==
    [i \in 1..Len(data) |-> ~is_nan(data[i]) /\ Gt(data[i], threshold)]

\* Is below threshold (NaN is not)
below(data, threshold) ==
    [i \in 1..Len(data) |-> ~is_nan(data[i]) /\ Lt(data[i], threshold)]

Min(a, b) == IF a < b THEN a ELSE b

\* AND two boolean vectors (zip stops at the shorter)
and(a, b) == [i \in 1..Min(Len(a), Len(b)) |-> a[i] /\ b[i]]

\* OR two boolean vectors (zip stops at the shorter)
or(a, b) == [i \in 1..Min(Len(a), Len(b)) |-> a[i] \/ b[i]]

\* ------------------------------------------------------------------------
\* Option, String and serde_json::Value
\* ------------------------------------------------------------------------
None == <<>>
Some(x) == <<x>>

\* a String is the sequence of its (ASCII) code points; a < b on strings
RECURSIVE StrLt(_, _)
StrLt(a, b) ==
    IF b = <<>> THEN FALSE
    ELSE IF a = <<>> THEN TRUE
    ELSE IF Head(a) # Head(b) THEN Head(a) < Head(b)
    ELSE StrLt(Tail(a), Tail(b))

\* a serde_json::Value: t is "null", "bool", "uint" (a non-negative integer),
\* "int" (a negative integer), "float", "str" or "arr"
JNull == [t |-> "null", n |-> 0, f |-> NAN, s |-> "", a |-> <<>>]
JUInt(n) == [t |-> "uint", n |-> n, f |-> NAN, s |-> "", a |-> <<>>]
JInt(n) == [t |-> "int", n |-> n, f |-> NAN, s |-> "", a |-> <<>>]
JFloat(x) == [t |-> "float", n |-> 0, f |-> x, s |-> "", a |-> <<>>]
JStr(s) == [t |-> "str", n |-> 0, f |-> NAN, s |-> s, a |-> <<>>]
JArr(a) == [t |-> "arr", n |-> 0, f |-> NAN, s |-> "", a |-> a]

\* (mutant) the number is read with as_f64 and cast: a fraction is truncated
\* and a negative number saturates at 0
get_u64_cast(params, key, default) ==
    IF key \in DOMAIN params /\ params[key].t = "uint" THEN params[key].n
    ELSE IF key \in DOMAIN params /\ params[key].t = "int" THEN 0
    ELSE IF key \in DOMAIN params /\ params[key].t = "float" /\ IsFin(params[key].f)
    THEN IF params[key].f[2] < 0 THEN 0 ELSE params[key].f[2] \div params[key].f[3]
    ELSE default

\* params.get(key).and_then(|v| v.as_u64()).unwrap_or(default) as usize
get_u64(params, key, default) ==
    IF key \in DOMAIN params /\ params[key].t = "uint" THEN params[key].n ELSE default

\* params.get(key).and_then(|v| v.as_f64()).unwrap_or(default)
get_f64(params, key, default) ==
    IF key \in DOMAIN params /\ params[key].t \in {"uint", "int"} THEN F(params[key].n)
    ELSE IF key \in DOMAIN params /\ params[key].t = "float" THEN params[key].f
    ELSE default

\* params.get(key).and_then(|v| v.as_str()).unwrap_or(default)
get_str(params, key, default) ==
    IF key \in DOMAIN params /\ params[key].t = "str" THEN params[key].s ELSE default

\* str::to_lowercase on the strings of the model
to_lowercase(s) ==
    CASE s = "BEARISH" -> "bearish"
      [] s = "Bullish" -> "bullish"
      [] s = "END" -> "end"
      [] s = "Close" -> "close"
      [] OTHER -> s

\* ------------------------------------------------------------------------
\* scanner.rs: the pattern evaluators.  Each returns Ok(mask) or PANIC.
\* ------------------------------------------------------------------------
SmaFast == 50
SmaSlow == 200

scan_golden_cross(data) ==
    Ok(crossed_above(sma(data.close, SmaFast), sma(data.close, SmaSlow)))

scan_death_cross(data) ==
    Ok(crossed_below(sma(data.close, SmaFast), sma(data.close, SmaSlow)))

ema_cross(direction, ema_fast, ema_slow) ==
    IF direction = "up" THEN Ok(crossed_above(ema_fast, ema_slow))
    ELSE Ok(crossed_below(ema_fast, ema_slow))

scan_ema_cross(data, params) ==
    LET fast == get_u64(params, "fast", 12)
        slow == get_u64(params, "slow", 26)
        direction == get_str(params, "direction", "up")
    IN  ema_cross(direction, ema(data.close, fast), ema(data.close, slow))

\* (mutant) the level is tested, not the crossing
cross_below_threshold_level(vals, threshold) ==
    Ok(below(vals, threshold))

\* the crossing of a series below / above a constant threshold
cross_below_threshold(vals, threshold) ==
    Ok(crossed_below(vals, Fill(threshold, Len(vals))))

cross_above_threshold(vals, threshold) ==
    Ok(crossed_above(vals, Fill(threshold, Len(vals))))

scan_rsi_oversold(data, params) ==
    LET period == get_u64(params, "period", 14)
        threshold == get_f64(params, "threshold", F(30))
    IN  cross_below_threshold(rsi(data.close, period), threshold)

scan_rsi_overbought(data, params) ==
    LET period == get_u64(params, "period", 14)
        threshold == get_f64(params, "threshold", F(70))
    IN  cross_above_threshold(rsi(data.close, period), threshold)

scan_obv_breakout(data, params, oc) ==
    LET lookback == get_u64(params, "lookback", 20)
    IN  higher_high(obv(data.close, data.volume), lookback, oc)

scan_volume_spike(data, params) ==
    LET period == get_u64(params, "period", 20)
        multiplier == get_f64(params, "multiplier", F(2))
    IN  Ok(above(volume_ratio(data.volume, period), multiplier))

\* band width (upper - lower) / middle in percent below squeeze_pct
squeeze(bands, squeeze_pct) ==
    IF ~bands.ok THEN PANIC
    ELSE LET middle == bands.v[1]
             upper == bands.v[2]
             lower == bands.v[3]
         IN  Ok([i \in 1..Len(middle) |->
                    IF is_nan(middle[i]) \/ is_nan(upper[i]) \/ is_nan(lower[i])
                       \/ Eq(middle[i], F(0))
                    THEN FALSE
                    ELSE Lt(Mul(Div(Sub(upper[i], lower[i]), middle[i]), F(100)),
                            squeeze_pct)])

scan_bollinger_squeeze(data, params, oc) ==
    LET period == get_u64(params, "period", 20)
        std_mult == get_f64(params, "std", F(2))
        squeeze_pct == get_f64(params, "squeeze_pct", F(5))
    IN  squeeze(bollinger(data.close, period, std_mult, oc), squeeze_pct)

scan_macd_cross_up(data, params) ==
    LET fast == get_u64(params, "fast", 12)
        slow == get_u64(params, "slow", 26)
        signal == get_u64(params, "signal", 9)
    IN  Ok(crossed_above(macd(data.close, fast, slow),
                         macd_signal(data.close, fast, slow, signal)))

scan_macd_cross_down(data, params) ==
    LET fast == get_u64(params, "fast", 12)
        slow == get_u64(params, "slow", 26)
        signal == get_u64(params, "signal", 9)
    IN  Ok(crossed_below(macd(data.close, fast, slow),
                         macd_signal(data.close, fast, slow, signal)))

scan_price_breakout(data, params, oc) ==
    higher_high(data.close, get_u64(params, "lookback", 252), oc)

\* and(&a, &b) of two outcomes
and_both(a, b) == IF ~a.ok \/ ~b.ok THEN PANIC ELSE Ok(and(a.v, b.v))

scan_bullish_divergence(data, params, oc) ==
    LET lookback == get_u64(params, "lookback", 20)
    IN  and_both(lower_low(data.close, lookback, oc),
                 higher_high(obv(data.close, data.volume), lookback, oc))

scan_bearish_divergence(data, params, oc) ==
    LET lookback == get_u64(params, "lookback", 20)
    IN  and_both(higher_high(data.close, lookback, oc),
                 lower_low(obv(data.close, data.volume), lookback, oc))

\* a tight range [min_price, max_price] broken upwards on a volume spike
breakout(close, ratio, max_price, min_price, range_pct, vol_mult) ==
    /\ Ne(min_price, F(0))
    /\ Lt(Mul(Div(Sub(max_price, min_price), min_price), F(100)), range_pct)
    /\ Gt(close, max_price)
    /\ ~is_nan(ratio)
    /\ Gt(ratio, vol_mult)

consolidation(data, period, range_pct, vol_mult, vol_ratio) ==
    Ok([i \in 1..Len(data.close) |->
           /\ i - 1 >= period
           /\ breakout(data.close[i], vol_ratio[i],
                       FoldMax(data.close, i - 1 - period, i - 2, NEG_INFINITY),
                       FoldMin(data.close, i - 1 - period, i - 2, INFINITY),
                       range_pct, vol_mult)])

scan_consolidation_breakout(data, params) ==
    LET period == get_u64(params, "period", 30)
        range_pct == get_f64(params, "range_pct", F(5))
        vol_mult == get_f64(params, "volume_multiplier", Fl(3, 2))
    IN  consolidation(data, period, range_pct, vol_mult, volume_ratio(data.volume, 20))

\* prev red, current green, current body engulfs the previous body
engulfing(data, i) ==
    /\ Lt(At(data.close, i - 1), At(data.open, i - 1))
    /\ Gt(At(data.close, i), At(data.open, i))
    /\ Le(At(data.open, i), At(data.close, i - 1))
    /\ Ge(At(data.close, i), At(data.open, i - 1))

\* (mutant) the window of RSI values runs up to the current bar
engulfing_oversold_with_current(data, rsi_vals, rsi_threshold, lookback) ==
    Ok([i \in 1..Len(data.close) |->
           /\ i - 1 >= 1
           /\ engulfing(data, i - 1)
           /\ \E j \in (IF i - 1 > lookback THEN i - 1 - lookback ELSE 0)..(i - 1) :
                 ~is_nan(At(rsi_vals, j)) /\ Lt(At(rsi_vals, j), rsi_threshold)])

engulfing_oversold(data, rsi_vals, rsi_threshold, lookback) ==
    Ok([i \in 1..Len(data.close) |->
           /\ i - 1 >= 1
           /\ engulfing(data, i - 1)
           /\ \E j \in (IF i - 1 > lookback THEN i - 1 - lookback ELSE 0)..(i - 2) :
                 ~is_nan(At(rsi_vals, j)) /\ Lt(At(rsi_vals, j), rsi_threshold)])

\* Bullish engulfing after RSI oversold
scan_bullish_engulfing_oversold(data, params) ==
    LET rsi_period == get_u64(params, "rsi_period", 14)
        rsi_threshold == get_f64(params, "rsi_threshold", F(30))
        lookback == get_u64(params, "lookback", 5)
    IN  engulfing_oversold(data, rsi(data.close, rsi_period), rsi_threshold, lookback)

\* date.get(0..7).unwrap_or(date)
month_key(date) == IF Len(date) >= 7 THEN SubSeq(date, 1, 7) ELSE date

MonthlyBar(start_idx, end_idx, open, close, high, low, volume) ==
    [start_idx |-> start_idx, end_idx |-> end_idx, open |-> open, close |-> close,
     high |-> high, low |-> low, volume |-> volume]

\* the month in progress, opened at day i
month_start(data, i, bars) ==
    [bars |-> bars, current_month |-> month_key(At(data.date, i)), start_idx |-> i,
     open |-> At(data.open, i), high |-> At(data.high, i), low |-> At(data.low, i),
     volume |-> At(data.volume, i)]

\* (mutant) the bar closes at the close of its first day
month_pushed_first_close(data, st, end_idx) ==
    Append(st.bars, MonthlyBar(st.start_idx, end_idx, st.open, At(data.close, st.start_idx),
                               st.high, st.low, st.volume))

\* bars.push(MonthlyBar { .. }) of the month in progress, closed at end_idx
month_pushed(data, st, end_idx) ==
    Append(st.bars, MonthlyBar(st.start_idx, end_idx, st.open, At(data.close, end_idx),
                               st.high, st.low, st.volume))

\* day i closes the month in progress and opens the next, or extends it
monthly_loop(data, i, st) ==
    IF month_key(At(data.date, i)) # st.current_month
    THEN month_start(data, i, month_pushed(data, st, i - 1))
    ELSE [st EXCEPT !.high = FMax(st.high, At(data.high, i)),
                    !.low = FMin(st.low, At(data.low, i)),
                    !.volume = Add(st.volume, At(data.volume, i))]

\* (mutant) the month in progress at the end of the series is not pushed
build_monthly_bars_unflushed(data) ==
    IF Len(data.close) = 0 THEN <<>>
    ELSE ForRange(LAMBDA i, st : monthly_loop(data, i, st), 1,
                  Len(data.close), month_start(data, 0, <<>>)).bars

build_monthly_bars(data) ==
    IF Len(data.close) = 0 THEN <<>>
    ELSE month_pushed(data,
                      ForRange(LAMBDA i, st : monthly_loop(data, i, st), 1,
                               Len(data.close), month_start(data, 0, <<>>)),
                      Len(data.close) - 1)

RECURSIVE gap_loop(_, _, _, _, _, _)
gap_loop(bars, i, gap_pct, candle, event_on, result) ==
    IF i >= Len(bars) THEN result
    ELSE LET prev == At(bars, i - 1)
             curr == At(bars, i)
             gap == Mul(Div(Sub(curr.open, prev.close), prev.close), F(100))
             candle_ok == CASE candle = "bullish" -> Gt(curr.close, curr.open)
                            [] candle = "bearish" -> Lt(curr.close, curr.open)
                            [] OTHER -> TRUE
             idx == IF event_on = "end" \/ event_on = "close"
                    THEN curr.end_idx ELSE curr.start_idx
         IN  IF Eq(prev.close, F(0)) \/ Gt(gap, Neg(gap_pct)) \/ ~candle_ok
                \/ idx >= Len(result)
             THEN gap_loop(bars, i + 1, gap_pct, candle, event_on, result)
             ELSE gap_loop(bars, i + 1, gap_pct, candle, event_on,
                           [result EXCEPT ![idx + 1] = TRUE])

\* (mutant) event_on is compared as the caller wrote it
scan_monthly_gap_drop_event_as_written(data, params) ==
    LET gap_pct == FAbs(get_f64(params, "gap_pct", F(5)))
        candle == to_lowercase(get_str(params, "candle", "any"))
        event_on == get_str(params, "event_on", "start")
        result == Fill(FALSE, Len(data.close))
        bars == build_monthly_bars(data)
    IN  IF Len(bars) < 2 THEN Ok(result)
        ELSE Ok(gap_loop(bars, 1, gap_pct, candle, event_on, result))

\* (mutant) candle is compared as the caller wrote it
scan_monthly_gap_drop_case_sensitive(data, params) ==
    LET gap_pct == FAbs(get_f64(params, "gap_pct", F(5)))
        candle == get_str(params, "candle", "any")
        event_on == to_lowercase(get_str(params, "event_on", "start"))
        result == Fill(FALSE, Len(data.close))
        bars == build_monthly_bars(data)
    IN  IF Len(bars) < 2 THEN Ok(result)
        ELSE Ok(gap_loop(bars, 1, gap_pct, candle, event_on, result))

\* Monthly gap-down, optionally filtered by candle direction
scan_monthly_gap_drop(data, params) ==
    LET gap_pct == FAbs(get_f64(params, "gap_pct", F(5)))
        candle == to_lowercase(get_str(params, "candle", "any"))
        event_on == to_lowercase(get_str(params, "event_on", "start"))
        result == Fill(FALSE, Len(data.close))
        bars == build_monthly_bars(data)
    IN  IF Len(bars) < 2 THEN Ok(result)
        ELSE Ok(gap_loop(bars, 1, gap_pct, candle, event_on, result))

\* the conditions of scan_custom: the string elements of params["conditions"]
custom_conditions(params) ==
    IF "conditions" \in DOMAIN params /\ params["conditions"].t = "arr"
    THEN LET arr == params["conditions"].a
         IN  SelectSeq(arr, LAMBDA v : v.t = "str")
    ELSE <<>>

\* the conditions scan_custom knows
CustomKnown ==
    {"golden_cross", "death_cross", "rsi_oversold", "rsi_overbought", "volume_spike",
     "price_breakout"}

custom_condition(cond, data, params, oc) ==
    CASE cond = "golden_cross" -> scan_golden_cross(data)
      [] cond = "death_cross" -> scan_death_cross(data)
      [] cond = "rsi_oversold" -> scan_rsi_oversold(data, params)
      [] cond = "rsi_overbought" -> scan_rsi_overbought(data, params)
      [] cond = "volume_spike" -> scan_volume_spike(data, params)
      [] OTHER -> scan_price_breakout(data, params, oc)

RECURSIVE custom_loop(_, _, _, _, _)
custom_and(data, params, oc, conds, result, cond_result) ==
    IF ~cond_result.ok THEN PANIC
    ELSE custom_loop(data, params, oc, Tail(conds),
                     IF result = None THEN Some(cond_result.v)
                     ELSE Some(and(result[1], cond_result.v)))

custom_loop(data, params, oc, conds, result) ==
    IF conds = <<>> THEN Ok(result)
    ELSE IF Head(conds).s \notin CustomKnown
         THEN custom_loop(data, params, oc, Tail(conds), result)
    ELSE custom_and(data, params, oc, conds, result,
                    custom_condition(Head(conds).s, data, params, oc))

\* result.unwrap_or_else(|| vec![false; n])
custom_result(r, n) ==
    IF ~r.ok THEN PANIC ELSE IF r.v = None THEN Ok(Fill(FALSE, n)) ELSE Ok(r.v[1])

\* Custom scan: the AND of the named conditions
scan_custom(data, params, oc) ==
    IF custom_conditions(params) = <<>> THEN Ok(Fill(FALSE, Len(data.close)))
    ELSE custom_result(custom_loop(data, params, oc, custom_conditions(params), None),
                       Len(data.close))

\* (mutant) the registry holds a scan under every name, true on the first day
get_scan_registered(id) ==
    Some(Ok(<<TRUE>>))

\* generated.rs: the dynamic registry is empty
get_scan(id) ==
    None

BuiltIn ==
    {"golden_cross", "death_cross", "ema_cross", "rsi_oversold", "rsi_overbought",
     "obv_breakout", "volume_spike", "bollinger_squeeze", "macd_cross_up",
     "macd_cross_down", "price_breakout", "bullish_divergence", "bearish_divergence",
     "consolidation_breakout", "bullish_engulfing_oversold", "monthly_gap_drop",
     "custom"}

\* the match of scan_single_ticker: Some(outcome of the evaluator), or None
\* when the name is neither built in nor registered
evaluate_pattern(scan_type, data, params, oc) ==
    CASE scan_type = "golden_cross" -> Some(scan_golden_cross(data))
      [] scan_type = "death_cross" -> Some(scan_death_cross(data))
      [] scan_type = "ema_cross" -> Some(scan_ema_cross(data, params))
      [] scan_type = "rsi_oversold" -> Some(scan_rsi_oversold(data, params))
      [] scan_type = "rsi_overbought" -> Some(scan_rsi_overbought(data, params))
      [] scan_type = "obv_breakout" -> Some(scan_obv_breakout(data, params, oc))
      [] scan_type = "volume_spike" -> Some(scan_volume_spike(data, params))
      [] scan_type = "bollinger_squeeze" -> Some(scan_bollinger_squeeze(data, params, oc))
      [] scan_type = "macd_cross_up" -> Some(scan_macd_cross_up(data, params))
      [] scan_type = "macd_cross_down" -> Some(scan_macd_cross_down(data, params))
      [] scan_type = "price_breakout" -> Some(scan_price_breakout(data, params, oc))
      [] scan_type = "bullish_divergence" -> Some(scan_bullish_divergence(data, params, oc))
      [] scan_type = "bearish_divergence" -> Some(scan_bearish_divergence(data, params, oc))
      [] scan_type = "consolidation_breakout" ->
            Some(scan_consolidation_breakout(data, params))
      [] scan_type = "bullish_engulfing_oversold" ->
            Some(scan_bullish_engulfing_oversold(data, params))
      [] scan_type = "monthly_gap_drop" -> Some(scan_monthly_gap_drop(data, params))
      [] scan_type = "custom" -> Some(scan_custom(data, params, oc))
      [] OTHER -> get_scan(scan_type)

\* (mutant) the record takes its open from the close column and vice versa
ScanMatch_swapped(ticker, data, i) ==
    [ticker |-> ticker, date |-> At(data.date, i), close |-> At(data.open, i),
     volume |-> At(data.volume, i), open |-> At(data.close, i),
     high |-> At(data.high, i), low |-> At(data.low, i), indicators |-> <<>>]

ScanMatch(ticker, data, i) ==
    [ticker |-> ticker, date |-> At(data.date, i), close |-> At(data.close, i),
     volume |-> At(data.volume, i), open |-> At(data.open, i),
     high |-> At(data.high, i), low |-> At(data.low, i), indicators |-> <<>>]

\* (mutant) the lower bound of the range is exclusive
in_range_exclusive(date, query) ==
    /\ query.date_from = None \/ StrLt(query.date_from[1], date)
    /\ query.date_to = None \/ ~StrLt(query.date_to[1], date)

\* the date-range test of scan_single_ticker
in_range(date, query) ==
    /\ query.date_from = None \/ ~StrLt(date, query.date_from[1])
    /\ query.date_to = None \/ ~StrLt(query.date_to[1], date)

\* (mutant) a match is put in front of the matches found before it
RECURSIVE filter_loop_prepending(_, _, _, _, _, _)
filter_loop_prepending(ticker, data, query, mask, i, matches) ==
    IF i >= Len(mask) THEN Ok(matches)
    ELSE IF ~At(mask, i) THEN filter_loop_prepending(ticker, data, query, mask, i + 1, matches)
    ELSE IF i >= Len(data.date) THEN PANIC
    ELSE IF ~in_range(At(data.date, i), query)
         THEN filter_loop_prepending(ticker, data, query, mask, i + 1, matches)
    ELSE filter_loop_prepending(ticker, data, query, mask, i + 1,
                                <<ScanMatch(ticker, data, i)>> \o matches)

RECURSIVE filter_loop(_, _, _, _, _, _)
filter_loop(ticker, data, query, mask, i, matches) ==
    IF i >= Len(mask) THEN Ok(matches)
    ELSE IF ~At(mask, i) THEN filter_loop(ticker, data, query, mask, i + 1, matches)
    ELSE IF i >= Len(data.date) THEN PANIC
    ELSE IF ~in_range(At(data.date, i), query)
         THEN filter_loop(ticker, data, query, mask, i + 1, matches)
    ELSE filter_loop(ticker, data, query, mask, i + 1,
                     Append(matches, ScanMatch(ticker, data, i)))

\* if matches.is_empty() { None } else { Some(matches) }
some_matches(m) ==
    IF ~m.ok THEN PANIC ELSE IF m.v = <<>> THEN Ok(None) ELSE Ok(Some(m.v))

filter_mask(ticker, data, query, r) ==
    IF r = None THEN Ok(None)
    ELSE IF ~r[1].ok THEN PANIC
    ELSE some_matches(filter_loop(ticker, data, query, r[1].v, 0, <<>>))

\* Scan a single ticker: Ok(None), Ok(Some(matches)) or PANIC
scan_single_ticker(ticker, data, query, oc) ==
    filter_mask(ticker, data, query,
                evaluate_pattern(query.scan_type, data, query.params, oc))

\* ------------------------------------------------------------------------
\* scanner.rs: run_scan
\* ------------------------------------------------------------------------
\* (mutant) the workers share one accumulator: a store overwrites the slots
\* after its own
store_slot_shared(slots, i, v) == [j \in DOMAIN slots |-> IF j >= i THEN v ELSE slots[j]]

\* one worker stores the outcome of its ticker in its own slot of the collect
store_slot(slots, i, v) == [slots EXCEPT ![i] = v]

\* (mutant) the collect stops at the first ticker without a match
RECURSIVE collect_until_none(_, _)
collect_until_none(slots, i) ==
    IF i > Len(slots) \/ slots[i] = None THEN <<>>
    ELSE <<slots[i][1]>> \o collect_until_none(slots, i + 1)

\* .filter_map(..).collect(): the Some outcomes, in the order of tickers
RECURSIVE collect_results(_, _)
collect_results(slots, i) ==
    IF i > Len(slots) THEN <<>>
    ELSE IF slots[i] = None THEN collect_results(slots, i + 1)
    ELSE <<slots[i][1]>> \o collect_results(slots, i + 1)

\* results.into_iter().flatten().collect()
RECURSIVE flatten(_)
flatten(results) ==
    IF results = <<>> THEN <<>> ELSE Head(results) \o flatten(Tail(results))

\* (mutant) every scanned ticker is counted as a ticker with matches
ScanResult_count_all(slots, total_tickers, scan_time_ms) ==
    [matches |-> flatten(collect_results(slots, 1)),
     total_tickers_scanned |-> total_tickers,
     tickers_with_matches |-> Len(slots),
     scan_time_ms |-> scan_time_ms]

ScanResult(slots, total_tickers, scan_time_ms) ==
    LET results == collect_results(slots, 1)
    IN  [matches |-> flatten(results),
         total_tickers_scanned |-> total_tickers,
         tickers_with_matches |-> Len(results),
         scan_time_ms |-> scan_time_ms]

\* ------------------------------------------------------------------------
\* The inputs of the model
\* ------------------------------------------------------------------------
\* number of tickers a universe may hold
MaxTickers == 2
\* largest scan_time_ms a scan may measure
MaxMs == 1

Digit(k) == 48 + k
\* the string "YYYY-MM-DD"
Date(y, m, d) ==
    <<Digit(y \div 1000), Digit((y \div 100) % 10), Digit((y \div 10) % 10),
      Digit(y % 10), 45, Digit(m \div 10), Digit(m % 10), 45,
      Digit(d \div 10), Digit(d % 10)>>

D1 == Date(2024, 1, 30)
D2 == Date(2024, 1, 31)
D3 == Date(2024, 2, 1)
D4 == Date(2024, 2, 2)

\* a TickerData from integer columns
TickerData(date, open, high, low, close, volume) ==
    [date |-> date,
     open |-> [i \in DOMAIN open |-> F(open[i])],
     high |-> [i \in DOMAIN high |-> F(high[i])],
     low |-> [i \in DOMAIN low |-> F(low[i])],
     close |-> [i \in DOMAIN close |-> F(close[i])],
     volume |-> [i \in DOMAIN volume |-> F(volume[i])]]

\* rising closes, a volume spike on the 2nd, 3rd and 4th day
Spiky == TickerData(<<D1, D2, D3, D4>>, <<9, 10, 11, 12>>, <<12, 13, 14, 15>>,
                    <<8, 9, 10, 11>>, <<10, 11, 12, 13>>, <<1, 4, 16, 64>>)
\* flat closes, a volume spike on the last day only
Late == TickerData(<<D1, D2, D3, D4>>, <<4, 4, 4, 4>>, <<6, 6, 6, 6>>,
                   <<3, 3, 3, 3>>, <<5, 5, 5, 5>>, <<2, 2, 2, 8>>)
\* no history at all
Empty == TickerData(<<>>, <<>>, <<>>, <<>>, <<>>, <<>>)

TickerNames == <<"AAPL", "MSFT", "NVDA", "TSLA">>
PoolOrder == <<Spiky, Late, Empty>>

TickerIndex(t) == CHOOSE i \in 1..Len(TickerNames) : TickerNames[i] = t

\* every universe up to the renaming of tickers: the first k tickers, holding
\* series of the pool
Universes ==
    UNION {{[t \in {TickerNames[i] : i \in 1..k} |-> PoolOrder[f[TickerIndex(t)]]] :
              f \in {g \in [1..k -> 1..Len(PoolOrder)] :
                        \A i \in 1..(k - 1) : g[i] <= g[i + 1]}} : k \in 0..MaxTickers}

\* the scans a caller may ask for
ScanChoices ==
    {[scan_type |-> "volume_spike",
      params |-> [k \in {"period", "multiplier"} |->
                    IF k = "period" THEN JUInt(2) ELSE JFloat(Fl(3, 2))]],
     [scan_type |-> "obv_breakout", params |-> [k \in {"lookback"} |-> JUInt(0)]],
     [scan_type |-> "no_such_pattern", params |-> <<>>]}

Queries ==
    {[scan_type |-> c.scan_type, params |-> c.params, date_from |-> f, date_to |-> t] :
        c \in ScanChoices, f \in {None, Some(D3)}, t \in {None, Some(D3)}}

\* all orders in which HashMap::keys may yield the set S
RECURSIVE Orders(_)
Orders(S) ==
    IF S = {} THEN {<<>>}
    ELSE UNION {{<<x>> \o o : o \in Orders(S \ {x})} : x \in S}

\* ------------------------------------------------------------------------
\* State
\* ------------------------------------------------------------------------
VARIABLES
    universe,         \* the data: HashMap<String, Arc<TickerData>>
    overflow_checks,  \* whether the build panics on integer overflow
    pc,               \* "idle", "scanning", "done" or "panicked"
    query,            \* the ScanQuery of the scan in progress
    tickers,          \* data.keys().cloned().collect()
    pending,          \* indices of tickers whose evaluation has not completed
    slots,            \* per ticker, the outcome of scan_single_ticker
    result,           \* the ScanResult returned
    prev,             \* history: the query and result of the scan before
    call,             \* the library function applied last, with its arguments
    ret               \* and what it returned

vars == <<universe, overflow_checks, pc, query, tickers, pending, slots, result,
          prev, call, ret>>

NoQuery == [scan_type |-> "", params |-> <<>>, date_from |-> None, date_to |-> None]
NoResult == [matches |-> <<>>, total_tickers_scanned |-> 0,
             tickers_with_matches |-> 0, scan_time_ms |-> 0]
NoCall == [fn |-> "none"]

Init ==
    /\ universe \in Universes
    /\ overflow_checks \in BOOLEAN
    /\ pc = "idle"
    /\ query = NoQuery
    /\ tickers = <<>>
    /\ pending = {}
    /\ slots = <<>>
    /\ result = NoResult
    /\ prev = None
    /\ call = NoCall
    /\ ret = None

\* what the caller asks after a scan: the same scan again, the scan narrowed
\* to a date range when it had none, or the same range under a name that
\* does not exist
FollowUp(p, q) ==
    \/ q = p
    \/ /\ p.date_from = None /\ p.date_to = None
       /\ q.scan_type = p.scan_type /\ q.params = p.params
    \/ q.scan_type \notin BuiltIn /\ q.date_from = p.date_from /\ q.date_to = p.date_to

\* run_scan is entered: the keys are collected and the workers fan out
StartScan(q, order) ==
    /\ pc = "idle"
    /\ IF prev = None THEN TRUE ELSE FollowUp(prev[1].query, q)
    /\ pc' = "scanning"
    /\ query' = q
    /\ tickers' = order
    /\ pending' = 1..Len(order)
    /\ slots' = [i \in 1..Len(order) |-> None]
    /\ result' = NoResult
    /\ UNCHANGED <<universe, overflow_checks, prev, call, ret>>

\* a worker has computed out for the ticker at position i
Complete(i, out) ==
    IF out.ok
    THEN /\ slots' = store_slot(slots, i, out.v)
         /\ pending' = pending \ {i}
         /\ pc' = pc
    ELSE /\ pc' = "panicked"
         /\ UNCHANGED <<slots, pending>>

\* (mutant) the worker takes its ticker's series out of the universe
EvalTicker_taking(i) ==
    /\ pc = "scanning"
    /\ i \in pending
    /\ Complete(i, scan_single_ticker(tickers[i], universe[tickers[i]], query,
                                      overflow_checks))
    /\ universe' = [universe EXCEPT ![tickers[i]] = Empty]
    /\ UNCHANGED <<overflow_checks, query, tickers, result, prev, call, ret>>

\* one worker completes scan_single_ticker for its ticker
EvalTicker(i) ==
    /\ pc = "scanning"
    /\ i \in pending
    /\ Complete(i, scan_single_ticker(tickers[i], universe[tickers[i]], query,
                                      overflow_checks))
    /\ UNCHANGED <<universe, overflow_checks, query, tickers, result, prev, call, ret>>

\* all workers are done: the results are flattened and counted
FinishScan(ms) ==
    /\ pc = "scanning"
    /\ pending = {}
    /\ result' = ScanResult(slots, Len(tickers), ms)
    /\ pc' = "done"
    /\ UNCHANGED <<universe, overflow_checks, query, tickers, pending, slots, prev,
                   call, ret>>

\* the caller takes the result
Return ==
    /\ pc = "done"
    /\ pc' = "idle"
    /\ prev' = Some([query |-> query, result |-> result])
    /\ query' = NoQuery
    /\ tickers' = <<>>
    /\ slots' = <<>>
    /\ result' = NoResult
    /\ UNCHANGED <<universe, overflow_checks, pending, call, ret>>

\* the panic of a worker unwinds run_scan; the request is lost
Unwind ==
    /\ pc = "panicked"
    /\ pc' = "idle"
    /\ query' = NoQuery
    /\ tickers' = <<>>
    /\ pending' = {}
    /\ slots' = <<>>
    /\ UNCHANGED <<universe, overflow_checks, result, prev, call, ret>>

Next ==
    \/ \E q \in Queries, order \in Orders(DOMAIN universe) : StartScan(q, order)
    \/ \E i \in 1..MaxTickers : EvalTicker(i)
    \/ \E ms \in 0..MaxMs : FinishScan(ms)
    \/ Return
    \/ Unwind

Spec == Init /\ [][Next]_vars

\* ------------------------------------------------------------------------
\* Properties of run_scan
\* ------------------------------------------------------------------------
MatchSet(r) == {r.matches[i] : i \in DOMAIN r.matches}

Unranged(q) == [q EXCEPT !.date_from = None, !.date_to = None]

\* from <= d <= to on strings, an absent bound not constraining
InWindow(d, from, to) ==
    /\ from = None \/ d = from[1] \/ StrLt(from[1], d)
    /\ to = None \/ d = to[1] \/ StrLt(d, to[1])

\* C1: a scan repeated with the same query on the same universe returns the
\* same set of match records and the same two counts; only scan_time_ms may
\* differ
C1_Idempotent ==
    (pc = "done" /\ prev # None) =>
        (prev[1].query = query =>
            /\ MatchSet(result) = MatchSet(prev[1].result)
            /\ result.total_tickers_scanned = prev[1].result.total_tickers_scanned
            /\ result.tickers_with_matches = prev[1].result.tickers_with_matches)

\* a repeated scan that returned its matches in another order and measured
\* another duration
C1_Witness ==
    /\ pc = "done"
    /\ prev # None
    /\ prev[1].query = query
    /\ result.matches # prev[1].result.matches
    /\ result.scan_time_ms # prev[1].result.scan_time_ms
    /\ result.tickers_with_matches >= 2

\* C2: the matches of a scan over a date range are exactly the matches of the
\* same scan without a range whose date lies in the inclusive window
C2_DateRangeIsPostFilter ==
    (pc = "done" /\ prev # None) =>
        (prev[1].query = Unranged(query) =>
            MatchSet(result) =
                {m \in MatchSet(prev[1].result) :
                    InWindow(m.date, query.date_from, query.date_to)})

\* a scan over [D3, D3] after the unranged scan, keeping some matches (on the
\* bound itself) and dropping others
C2_Witness ==
    /\ pc = "done"
    /\ prev # None
    /\ prev[1].query = Unranged(query)
    /\ query.date_from # None
    /\ query.date_to # None
    /\ result.matches # <<>>
    /\ Len(result.matches) < Len(prev[1].result.matches)
    /\ \E i \in DOMAIN result.matches : result.matches[i].date = query.date_from[1]

\* the mask of the scanned pattern on a ticker, all false when there is none
MaskOf(t) ==
    LET r == evaluate_pattern(query.scan_type, universe[t], query.params, overflow_checks)
    IN  IF r = None THEN Fill(FALSE, Len(universe[t].close)) ELSE r[1].v

\* the record the scan owes for index i (from 1) of ticker t
RecordAt(t, i) ==
    [ticker |-> t, date |-> universe[t].date[i], open |-> universe[t].open[i],
     high |-> universe[t].high[i], low |-> universe[t].low[i],
     close |-> universe[t].close[i], volume |-> universe[t].volume[i],
     indicators |-> <<>>]

Occurrences(seq, x) == Cardinality({k \in DOMAIN seq : seq[k] = x})

\* C3: the result holds exactly one record (ticker, date, OHLCV at i) for each
\* ticker and index where the mask is true and the date is in the range, none
\* for any other index, and no record that is not of this form
C3_ExactlyTheMaskedDates ==
    pc = "done" =>
        /\ \A t \in DOMAIN universe : \A mask \in {MaskOf(t)} :
              \A i \in DOMAIN universe[t].date :
                  Occurrences(result.matches, RecordAt(t, i)) =
                      IF mask[i] /\ InWindow(universe[t].date[i],
                                             query.date_from, query.date_to)
                      THEN 1 ELSE 0
        /\ \A k \in DOMAIN result.matches :
              \E t \in DOMAIN universe : \E i \in DOMAIN universe[t].date :
                  result.matches[k] = RecordAt(t, i)

\* a finished scan with a record, of a ticker whose mask is also true on a
\* date outside the range
C3_Witness ==
    /\ pc = "done"
    /\ result.matches # <<>>
    /\ \E t \in DOMAIN universe : \E i, j \in DOMAIN universe[t].date :
          /\ MaskOf(t)[i] /\ MaskOf(t)[j]
          /\ Occurrences(result.matches, RecordAt(t, i)) = 1
          /\ Occurrences(result.matches, RecordAt(t, j)) = 0

\* C4: total_tickers_scanned is the size of the universe and
\* tickers_with_matches the number of distinct tickers among the records
C4_Counts ==
    pc = "done" =>
        /\ result.total_tickers_scanned = Cardinality(DOMAIN universe)
        /\ result.tickers_with_matches =
              Cardinality({m.ticker : m \in MatchSet(result)})

\* a finished scan in which one ticker has records and another, whose mask
\* fired only outside the range, has none and is not counted
C4_Witness ==
    /\ pc = "done"
    /\ result.tickers_with_matches = 1
    /\ result.total_tickers_scanned >= 2
    /\ \E t \in DOMAIN universe :
          /\ \E i \in DOMAIN universe[t].date : MaskOf(t)[i]
          /\ \A m \in MatchSet(result) : m.ticker # t

\* what scan_single_ticker returns for the ticker at position i
OwnOutcome(i) ==
    scan_single_ticker(tickers[i], universe[tickers[i]], query, overflow_checks).v

\* C5: whatever the order in which the workers complete, each completed slot
\* holds the outcome of its own ticker only, and the result is the
\* concatenation and count of these outcomes
C5_OrderIndependent ==
    /\ pc = "scanning" =>
          \A i \in DOMAIN slots : i \notin pending => slots[i] = OwnOutcome(i)
    /\ pc = "done" =>
          \A own \in {[i \in DOMAIN slots |-> OwnOutcome(i)]} :
              /\ slots = own
              /\ MatchSet(result) =
                    UNION {{own[i][1][k] : k \in DOMAIN own[i][1]} :
                              i \in {j \in DOMAIN slots : own[j] # None}}
              /\ result.tickers_with_matches =
                    Cardinality({j \in DOMAIN slots : own[j] # None})
              /\ result.total_tickers_scanned = Len(tickers)

\* the second ticker completed before the first, with matches
C5_Witness ==
    /\ pc = "scanning"
    /\ Len(tickers) >= 2
    /\ 1 \in pending
    /\ 2 \notin pending
    /\ slots[2] # None
    /\ OwnOutcome(1) # None

\* C6 (as claimed): what a scan returns for a name that is neither built in
\* nor registered differs from what the scan before it returned for a built-in
\* pattern that matched nothing on the same universe
C6_UnknownIsDistinguished ==
    (pc = "done" /\ prev # None) =>
        ((/\ query.scan_type \notin BuiltIn
          /\ prev[1].query.scan_type \in BuiltIn
          /\ prev[1].result.matches = <<>>)
            => result # prev[1].result)

\* C7 (as claimed): no parameter value makes a scan abort
C7_NeverAborts == pc # "panicked"

\* ------------------------------------------------------------------------
\* The library called directly: inputs
\* ------------------------------------------------------------------------
\* the longest history a pattern is evaluated on
MaxHistory == 201
\* the longest series an indicator is applied to
MaxLen == 3

\* the i-th trading day (i from 1), 28 to a month
DayOf(i) == Date(2024, 1 + ((i - 1) \div 28), 1 + ((i - 1) % 28))

\* n days of history: closes flat at 16 for SmaSlow days and at 32 after them,
\* volume 1 with a spike of 4 on the last day
History(n) ==
    TickerData([i \in 1..n |-> DayOf(i)],
               [i \in 1..n |-> IF i <= SmaSlow THEN 16 ELSE 32],
               [i \in 1..n |-> IF i <= SmaSlow THEN 17 ELSE 33],
               [i \in 1..n |-> IF i <= SmaSlow THEN 15 ELSE 31],
               [i \in 1..n |-> IF i <= SmaSlow THEN 16 ELSE 32],
               [i \in 1..n |-> IF i = n THEN 4 ELSE 1])

\* lengths around the default periods of the patterns
HistoryLens ==
    {n \in 0..MaxHistory :
        n \in {0, 1, 2, 13, 14, 15, 19, 20, 21, 25, 26, 29, 30, 31, 49, 50, 199, 200}
        \/ n = MaxHistory}

\* params of a query that sets none
DefaultParams == <<>>

\* all sequences over S of length at most n
RECURSIVE SeqsUpTo(_, _)
SeqsUpTo(S, n) ==
    IF n = 0 THEN {<<>>}
    ELSE LET shorter == SeqsUpTo(S, n - 1)
         IN  shorter \cup {Append(q, x) : q \in {r \in shorter : Len(r) = n - 1}, x \in S}

\* short series around 0
SmallSeries == SeqsUpTo({F(-1), F(0), F(1)}, MaxLen)

\* the smallest power of two whose successor is not a float of the model
Big == F(Pow2(MantBits + 1))

\* series of small integers and one large value, and the series of test_sma
SmaSeries ==
    SeqsUpTo({F(1), F(2), F(3), Big}, MaxLen) \cup {<<F(1), F(2), F(3), F(4), F(5)>>}

\* a TickerData whose price and volume columns are all the series s
Flat(s) ==
    [date |-> [i \in 1..Len(s) |-> DayOf(i)], open |-> s, high |-> s, low |-> s,
     close |-> s, volume |-> s]

\* params of bollinger_squeeze: a period, and a (possibly negative) std
SqueezeParams ==
    {[k \in {"period"} |-> JUInt(p)] : p \in {0, 2}}
    \cup {[k \in {"period", "std"} |-> IF k = "period" THEN JUInt(2) ELSE JFloat(F(-2))]}

\* two days of January closing at 100, then two days of February that open
\* at o and close at c
GapData(o, c) ==
    TickerData(<<D1, D2, D3, D4>>, <<100, 100, o, 95>>, <<101, 101, 101, 101>>,
               <<79, 79, 79, 79>>, <<100, 100, 85, c>>, <<1, 1, 1, 1>>)

\* gap_pct = 5 as an integer or as a float, and candle absent, a colour in
\* either case, another string, or not a string
GapParams ==
    {[k \in {"gap_pct"} |-> g] : g \in {JUInt(5), JFloat(F(5))}}
    \cup {[k \in {"gap_pct", "candle"} |-> IF k = "gap_pct" THEN g ELSE c] :
             g \in {JUInt(5), JFloat(F(5))},
             c \in {JStr("bearish"), JStr("bullish"), JStr("BEARISH"), JStr("Bullish"),
                    JStr("any"), JStr("red"), JUInt(1)}}

GapCalls ==
    {[fn |-> "evaluate_pattern", scan_type |-> "monthly_gap_drop", data |-> GapData(o, c),
      params |-> q] : o \in {90, 97}, c \in {80, 90, 100}, q \in GapParams}

\* 60 days: closes rise from 21 to 40, fall to 20 and rise to 40 again, each
\* day opening at the close before; volume 1 with spikes of 4
WaveClose(i) == IF i <= 20 THEN 20 + i ELSE IF i <= 40 THEN 60 - i ELSE i - 20

WaveOpen(i) == IF i = 1 THEN 21 ELSE WaveClose(i - 1)

Wave ==
    TickerData([i \in 1..60 |-> DayOf(i)],
               [i \in 1..60 |-> WaveOpen(i)],
               [i \in 1..60 |-> 1 + IF WaveOpen(i) > WaveClose(i) THEN WaveOpen(i)
                                    ELSE WaveClose(i)],
               [i \in 1..60 |-> (IF WaveOpen(i) < WaveClose(i) THEN WaveOpen(i)
                                 ELSE WaveClose(i)) - 1],
               [i \in 1..60 |-> WaveClose(i)],
               [i \in 1..60 |-> IF i \in {30, 45} THEN 4 ELSE 1])

\* the keys each pattern reads, with the default each is documented to take
ParamDefaults(scan_type) ==
    CASE scan_type = "ema_cross" ->
            [fast |-> JUInt(12), slow |-> JUInt(26), direction |-> JStr("up")]
      [] scan_type = "rsi_oversold" -> [period |-> JUInt(14), threshold |-> JFloat(F(30))]
      [] scan_type = "rsi_overbought" -> [period |-> JUInt(14), threshold |-> JFloat(F(70))]
      [] scan_type \in {"obv_breakout", "bullish_divergence", "bearish_divergence"} ->
            [lookback |-> JUInt(20)]
      [] scan_type = "volume_spike" -> [period |-> JUInt(20), multiplier |-> JFloat(F(2))]
      [] scan_type = "bollinger_squeeze" ->
            [period |-> JUInt(20), std |-> JFloat(F(2)), squeeze_pct |-> JFloat(F(5))]
      [] scan_type \in {"macd_cross_up", "macd_cross_down"} ->
            [fast |-> JUInt(12), slow |-> JUInt(26), signal |-> JUInt(9)]
      [] scan_type = "price_breakout" -> [lookback |-> JUInt(252)]
      [] scan_type = "consolidation_breakout" ->
            [period |-> JUInt(30), range_pct |-> JFloat(F(5)),
             volume_multiplier |-> JFloat(Fl(3, 2))]
      [] scan_type = "bullish_engulfing_oversold" ->
            [rsi_period |-> JUInt(14), rsi_threshold |-> JFloat(F(30)),
             lookback |-> JUInt(5)]
      [] scan_type = "monthly_gap_drop" ->
            [gap_pct |-> JFloat(F(5)), candle |-> JStr("any"), event_on |-> JStr("start")]
      [] scan_type = "custom" -> [conditions |-> JArr(<<>>)]
      [] OTHER -> <<>>

\* values of another type than the default d: where a count is read, also a
\* negative and a fractional number
WrongValues(d) ==
    CASE d.t = "uint" -> {JStr("7"), JInt(-7), JFloat(Fl(5, 2)), JNull}
      [] d.t = "float" -> {JStr("7"), JNull, JArr(<<>>)}
      [] d.t = "str" -> {JUInt(7), JNull}
      [] OTHER -> {JStr("golden_cross"), JUInt(7)}

\* every pattern with no key set, and with one of its keys mistyped
MistypedCalls ==
    {[fn |-> "evaluate_pattern", scan_type |-> t, data |-> d, params |-> DefaultParams] :
        t \in BuiltIn, d \in {Wave, GapData(90, 80)}}
    \cup UNION {UNION {{[fn |-> "evaluate_pattern", scan_type |-> t, data |-> d,
                        params |-> [x \in {k} |-> w]] :
                           w \in WrongValues(ParamDefaults(t)[k]),
                           d \in {Wave, GapData(90, 80)}} :
                       k \in DOMAIN ParamDefaults(t)} : t \in BuiltIn}

\* rsi_oversold and rsi_overbought with short periods on short series that
\* rise, fall and have gaps
RsiCrossCalls ==
    {[fn |-> "evaluate_pattern", scan_type |-> t, data |-> Flat(c),
      params |-> [k \in {"period", "threshold"} |->
                    IF k = "period" THEN JUInt(p) ELSE JUInt(th)]] :
        t \in {"rsi_oversold", "rsi_overbought"},
        c \in SeqsUpTo({F(1), F(3), NAN}, MaxLen + 2), p \in {1, 2}, th \in {30, 70}}

\* custom with lists of pattern names
CustomCalls ==
    {[fn |-> "evaluate_pattern", scan_type |-> "custom", data |-> Wave,
      params |-> [k \in {"conditions"} |-> JArr([i \in DOMAIN names |-> JStr(names[i])])]] :
        names \in {<<>>, <<"volume_spike">>, <<"rsi_oversold">>,
                   <<"volume_spike", "rsi_oversold">>, <<"ema_cross">>,
                   <<"volume_spike", "obv_breakout">>}}

\* two days of January closing at p, then two days of February that open and
\* close at o
GapFrom(p, o) ==
    [date |-> <<D1, D2, D3, D4>>, open |-> <<p, p, o, o>>, high |-> <<p, p, o, o>>,
     low |-> <<p, p, o, o>>, close |-> <<p, p, o, o>>,
     volume |-> <<F(1), F(1), F(1), F(1)>>]

\* gaps of -50, -25, -20 and +10 percent after a close of 100, and opens after
\* a close of 0 or an undefined close, with a threshold of 25 given with
\* either sign
ThresholdCalls ==
    {[fn |-> "evaluate_pattern", scan_type |-> "monthly_gap_drop", data |-> GapFrom(p, o),
      params |-> [k \in {"gap_pct"} |-> g]] :
        p \in {F(100), F(0), NAN}, o \in {F(50), F(75), F(80), F(110)},
        g \in {JUInt(25), JInt(-25)}}

\* the first n of six days, two each in January, February and March: closes
\* of 100 in January, 50 in February and m in March
ThreeMonths(n, m) ==
    LET days == <<D1, D2, D3, D4, Date(2024, 3, 1), Date(2024, 3, 4)>>
        price == <<100, 100, 50, 50, m, m>>
    IN  TickerData(SubSeq(days, 1, n), SubSeq(price, 1, n), SubSeq(price, 1, n),
                   SubSeq(price, 1, n), SubSeq(price, 1, n), [i \in 1..n |-> 1])

\* event_on absent, "start", "end" or "close" in either case, another
\* string, or not a string
EventParams ==
    {[k \in {"gap_pct"} |-> JUInt(25)]}
    \cup {[k \in {"gap_pct", "event_on"} |-> IF k = "gap_pct" THEN JUInt(25) ELSE e] :
             e \in {JStr("start"), JStr("end"), JStr("close"), JStr("END"), JStr("Close"),
                    JStr("middle"), JUInt(1)}}

EventCalls ==
    {[fn |-> "evaluate_pattern", scan_type |-> "monthly_gap_drop",
      data |-> ThreeMonths(n, m), params |-> q] :
        n \in {0, 1, 2, 4, 5, 6}, m \in {20, 50}, q \in EventParams}

\* bars of the opens o and the closes c
Candles(o, c) ==
    [date |-> [i \in DOMAIN c |-> DayOf(i)], open |-> o,
     high |-> [i \in DOMAIN c |-> FMax(o[i], c[i])],
     low |-> [i \in DOMAIN c |-> FMin(o[i], c[i])],
     close |-> c, volume |-> [i \in DOMAIN c |-> F(1)]]

\* bullish_engulfing_oversold on all candles of 1 and 3, with RSI period 1
\* under 45 or RSI period 2 under 70, and short lookbacks
EngulfingCalls ==
    {[fn |-> "evaluate_pattern", scan_type |-> "bullish_engulfing_oversold",
      data |-> Candles(oc[1], oc[2]),
      params |-> [k \in {"rsi_period", "rsi_threshold", "lookback"} |->
                    IF k = "rsi_period" THEN JUInt(p)
                    ELSE IF k = "rsi_threshold" THEN JUInt(20 + 25 * p) ELSE JUInt(lb)]] :
        oc \in UNION {[1..n -> {F(1), F(3)}] \X [1..n -> {F(1), F(3)}] : n \in 0..MaxLen},
        p \in {1, 2}, lb \in {0, 1, 2}}

PatternCalls ==
    {[fn |-> "evaluate_pattern", scan_type |-> t, data |-> History(n),
      params |-> DefaultParams] : t \in BuiltIn, n \in HistoryLens}
    \cup {[fn |-> "evaluate_pattern", scan_type |-> "bollinger_squeeze", data |-> Flat(s),
           params |-> q] : s \in SmallSeries, q \in SqueezeParams}
    \cup GapCalls
    \cup MistypedCalls
    \cup RsiCrossCalls
    \cup CustomCalls
    \cup ThresholdCalls
    \cup EventCalls
    \cup EngulfingCalls

SmaCalls == {[fn |-> "sma", data |-> s, period |-> p] : s \in SmaSeries, p \in 0..MaxLen}

PctChangeCalls ==
    {[fn |-> "pct_change", data |-> s, periods |-> p] : s \in SmallSeries, p \in 0..MaxLen}

VolumeRatioCalls ==
    {[fn |-> "volume_ratio", volume |-> s, period |-> p] :
        s \in SmallSeries, p \in 0..MaxLen}

EmaCalls == {[fn |-> "ema", data |-> s, period |-> p] : s \in SmaSeries, p \in 0..MaxLen}

\* series with rises and falls, a large value, and values that are not finite
RsiSeries == SeqsUpTo({F(0), F(1), F(3), Big, NAN, INFINITY}, MaxLen)

RsiCalls == {[fn |-> "rsi", data |-> s, period |-> p] : s \in RsiSeries, p \in 0..MaxLen}

\* pairs of series of one length, with undefined values; and the pair of
\* test_crossed_above
CrossPairs ==
    UNION {{<<a, b>> : a \in {q \in SeqsUpTo({F(1), F(2), NAN}, MaxLen) : Len(q) = n},
                        b \in {q \in SeqsUpTo({F(1), F(2), NAN}, MaxLen) : Len(q) = n}} :
              n \in 0..MaxLen}
    \cup {<<<<F(1), F(2), F(3), F(4)>>, <<F(2), F(2), F(2), F(2)>>>>}

CrossCalls ==
    {[fn |-> f, a |-> p[1], b |-> p[2]] :
        f \in {"crossed_above", "crossed_below"}, p \in CrossPairs}



\* dates of three months, and a date of fewer than 7 characters
MonthDates ==
    {Date(2024, 1, 30), Date(2024, 1, 31), Date(2024, 2, 1), Date(2024, 3, 1),
     <<Digit(2), Digit(0), Digit(2), Digit(4)>>}

\* a series on the dates ds, in any order: prices that rise and fall within a
\* month, and volumes of which, in shape 2, the first is large
MonthData(ds, shape) ==
    TickerData(ds,
               [i \in DOMAIN ds |-> 10 + ((i * (shape + 1)) % 4)],
               [i \in DOMAIN ds |-> 20 + ((i * (2 * shape + 1)) % 4)],
               [i \in DOMAIN ds |-> 5 - ((i * (shape + 2)) % 3)],
               [i \in DOMAIN ds |-> 10 + ((3 * i + shape) % 5)],
               [i \in DOMAIN ds |-> IF shape = 2 /\ i = 1 THEN Pow2(MantBits + 1) ELSE i])

\* all short sequences of those dates, and two of four days
MonthSeqs ==
    SeqsUpTo(MonthDates, MaxLen)
    \cup {<<Date(2024, 1, 30), Date(2024, 1, 31), Date(2024, 2, 1), Date(2024, 2, 1)>>,
          <<Date(2024, 1, 31), Date(2024, 2, 1), Date(2024, 2, 1), Date(2024, 1, 30)>>}

MonthCalls ==
    {[fn |-> "build_monthly_bars", data |-> MonthData(ds, shape)] :
        ds \in MonthSeqs, shape \in {1, 2}}

\* short series with ties and undefined values, and two series of six values
ExtremeSeries ==
    SeqsUpTo({F(1), F(2), NAN}, MaxLen)
    \cup {<<F(1), F(3), F(2), F(4), F(4), F(5)>>, <<F(5), F(3), F(4), F(2), F(2), F(1)>>}

ExtremeCalls ==
    {[fn |-> f, data |-> d, lookback |-> k] :
        f \in {"higher_high", "lower_low"}, d \in ExtremeSeries, k \in 0..MaxLen}



\* macd_signal on short defined series with short periods
MacdCalls ==
    {[fn |-> "macd_signal", data |-> d, fast |-> f, slow |-> sl, signal |-> sg] :
        d \in SeqsUpTo({F(1), F(2), F(4)}, MaxLen), f \in 0..2, sl \in 1..2, sg \in 0..2}

\* ------------------------------------------------------------------------
\* The library called directly: one call, then its return
\* ------------------------------------------------------------------------
InitLib ==
    /\ universe = <<>>
    /\ overflow_checks \in BOOLEAN
    /\ pc = "call"
    /\ query = NoQuery
    /\ tickers = <<>>
    /\ pending = {}
    /\ slots = <<>>
    /\ result = NoResult
    /\ prev = None
    /\ \/ call \in PatternCalls
       \/ call \in SmaCalls
       \/ call \in PctChangeCalls
       \/ call \in VolumeRatioCalls
       \/ call \in EmaCalls
       \/ call \in RsiCalls
       \/ call \in CrossCalls
       \/ call \in MonthCalls
       \/ call \in ExtremeCalls
       \/ call \in MacdCalls
    /\ ret = None

Returns(v) ==
    /\ pc = "call"
    /\ pc' = "returned"
    /\ ret' = Some(v)
    /\ UNCHANGED <<universe, overflow_checks, query, tickers, pending, slots, result,
                   prev, call>>

ApplyPattern ==
    /\ call.fn = "evaluate_pattern"
    /\ Returns(evaluate_pattern(call.scan_type, call.data, call.params, overflow_checks))

ApplySma ==
    /\ call.fn = "sma"
    /\ Returns(sma(call.data, call.period))

ApplyPctChange ==
    /\ call.fn = "pct_change"
    /\ Returns(pct_change(call.data, call.periods))

ApplyVolumeRatio ==
    /\ call.fn = "volume_ratio"
    /\ Returns(volume_ratio(call.volume, call.period))

ApplyEma ==
    /\ call.fn = "ema"
    /\ Returns(ema(call.data, call.period))

ApplyRsi ==
    /\ call.fn = "rsi"
    /\ Returns(rsi(call.data, call.period))

ApplyCrossedAbove ==
    /\ call.fn = "crossed_above"
    /\ Returns(crossed_above(call.a, call.b))

ApplyCrossedBelow ==
    /\ call.fn = "crossed_below"
    /\ Returns(crossed_below(call.a, call.b))

ApplyBuildMonthlyBars ==
    /\ call.fn = "build_monthly_bars"
    /\ Returns(build_monthly_bars(call.data))

ApplyHigherHigh ==
    /\ call.fn = "higher_high"
    /\ Returns(higher_high(call.data, call.lookback, overflow_checks))

ApplyLowerLow ==
    /\ call.fn = "lower_low"
    /\ Returns(lower_low(call.data, call.lookback, overflow_checks))

ApplyMacdSignal ==
    /\ call.fn = "macd_signal"
    /\ Returns(macd_signal(call.data, call.fast, call.slow, call.signal))

NextLib ==
    \/ ApplyPattern
    \/ ApplySma
    \/ ApplyPctChange
    \/ ApplyVolumeRatio
    \/ ApplyEma
    \/ ApplyRsi
    \/ ApplyCrossedAbove
    \/ ApplyCrossedBelow
    \/ ApplyBuildMonthlyBars
    \/ ApplyHigherHigh
    \/ ApplyLowerLow
    \/ ApplyMacdSignal

SpecLib == InitLib /\ [][NextLib]_vars

\* ------------------------------------------------------------------------
\* Properties of the patterns and indicators
\* ------------------------------------------------------------------------
\* the longest indicator period of a pattern under its default parameters
DefaultPeriod(scan_type) ==
    CASE scan_type \in {"golden_cross", "death_cross"} -> SmaSlow
      [] scan_type \in {"ema_cross", "macd_cross_up", "macd_cross_down"} -> 26
      [] scan_type \in {"rsi_oversold", "rsi_overbought", "bullish_engulfing_oversold"} -> 14
      [] scan_type \in {"obv_breakout", "volume_spike", "bollinger_squeeze",
                        "bullish_divergence", "bearish_divergence"} -> 20
      [] scan_type = "price_breakout" -> 252
      [] scan_type = "consolidation_breakout" -> 30
      [] OTHER -> 0

Returned(fn) == call.fn = fn /\ ret # None

\* C8: a built-in pattern with its default parameters returns a mask as long as
\* the series and does not panic; on a series shorter than its indicator period
\* the mask is all false, and the 200-day average of a golden or death cross
\* on fewer than 200 points is undefined at every position
C8_ShortHistoryIsNoMatch ==
    (Returned("evaluate_pattern") /\ call.params = DefaultParams) =>
        /\ ret[1] # None
        /\ ret[1][1].ok
        /\ Len(ret[1][1].v) = Len(call.data.close)
        /\ Len(call.data.close) < DefaultPeriod(call.scan_type)
              => ret[1][1].v = Fill(FALSE, Len(call.data.close))
        /\ (call.scan_type \in {"golden_cross", "death_cross"}
            /\ Len(call.data.close) < SmaSlow)
              => sma(call.data.close, SmaSlow) = Fill(NAN, Len(call.data.close))

\* a golden cross asked of 199 points has returned the all-false mask
C8_Witness ==
    /\ Returned("evaluate_pattern")
    /\ call.params = DefaultParams
    /\ call.scan_type = "golden_cross"
    /\ Len(call.data.close) = 199
    /\ ret = Some(Some(Ok(Fill(FALSE, 199))))

\* the period a bollinger_squeeze call asks for
SqueezePeriod == get_u64(call.params, "period", 20)

\* C9: pct_change is NaN wherever its base is 0, volume_ratio is NaN wherever
\* the rolling mean volume is 0 or NaN, and bollinger_squeeze returns a mask
\* that is false wherever the middle band is 0
C9_ZeroDivisorIsUndefined ==
    /\ Returned("pct_change") =>
          \A i \in call.periods..(Len(call.data) - 1) :
              Eq(At(call.data, i - call.periods), F(0)) => is_nan(At(ret[1], i))
    /\ Returned("volume_ratio") =>
          \A i \in 0..(Len(call.volume) - 1) :
              (\/ is_nan(At(sma(call.volume, call.period), i))
               \/ Eq(At(sma(call.volume, call.period), i), F(0)))
                  => is_nan(At(ret[1], i))
    /\ (Returned("evaluate_pattern") /\ call.scan_type = "bollinger_squeeze") =>
          \A i \in 0..(Len(call.data.close) - 1) :
              Eq(At(sma(call.data.close, SqueezePeriod), i), F(0))
                  => ret[1][1].ok /\ ~At(ret[1][1].v, i)

\* pct_change has returned NaN for a nonzero value over a base of 0
C9_Witness ==
    /\ Returned("pct_change")
    /\ \E i \in call.periods..(Len(call.data) - 1) :
          /\ Eq(At(call.data, i - call.periods), F(0))
          /\ Ne(At(call.data, i), F(0))
          /\ is_nan(At(ret[1], i))

\* data[i + 1 - period..=i].iter().sum::<f64>() / period as f64
WindowMean(data, period, i) == Div(SumRange(data, i + 1 - period, i + 1, F(0)), F(period))

\* C10 (as claimed): for a period p > 0 and a series of at least p finite
\* values, sma is defined at every i >= p - 1 and equals the mean of the window
\* that ends at i
C10_SmaIsWindowMean ==
    (/\ Returned("sma")
     /\ call.period > 0
     /\ Len(call.data) >= call.period
     /\ \A i \in DOMAIN call.data : IsFin(call.data[i])) =>
        \A i \in (call.period - 1)..(Len(call.data) - 1) :
            /\ IsFin(At(ret[1], i))
            /\ At(ret[1], i) = WindowMean(call.data, call.period, i)

\* C11: sma returns as many values as data has; the values before index
\* period - 1 are NaN, and all values are NaN when period is 0 or data is
\* shorter than period
C11_SmaShape ==
    Returned("sma") =>
        /\ Len(ret[1]) = Len(call.data)
        /\ \A i \in 0..(Len(call.data) - 1) :
              i < call.period - 1 => is_nan(At(ret[1], i))
        /\ (call.period = 0 \/ Len(call.data) < call.period)
              => ret[1] = Fill(NAN, Len(call.data))

\* sma over a window of 2 or more on a series long enough has returned NaN
\* at index 0 and a finite value at index period - 1
C11_Witness ==
    /\ Returned("sma")
    /\ call.period >= 2
    /\ Len(call.data) >= call.period
    /\ is_nan(At(ret[1], 0))
    /\ IsFin(At(ret[1], call.period - 1))

\* C12: for a period p > 0 and a series of at least p values, ema and sma
\* hold the same value at index p - 1, and ema is NaN at every index before
C12_EmaSeedIsSma ==
    (Returned("ema") /\ call.period > 0 /\ Len(call.data) >= call.period) =>
        /\ At(ret[1], call.period - 1) = At(sma(call.data, call.period), call.period - 1)
        /\ IsFin(At(ret[1], call.period - 1))
        /\ \A i \in 0..(call.period - 2) : is_nan(At(ret[1], i))

\* ema over a window of 2 on three distinct values has returned a seed that
\* is not the value at the seed index, and went on from it
C12_Witness ==
    /\ Returned("ema")
    /\ call.period = 2
    /\ Len(call.data) = 3
    /\ is_nan(At(ret[1], 0))
    /\ At(ret[1], 1) # At(call.data, 1)
    /\ At(ret[1], 1) = At(sma(call.data, 2), 1)
    /\ IsFin(At(ret[1], 2))

\* C13: every rsi value that is not NaN lies in [0, 100], and on a series of
\* one repeated finite value rsi is exactly 100 from index period on
C13_RsiRange ==
    Returned("rsi") =>
        /\ \A i \in DOMAIN ret[1] :
              ~is_nan(ret[1][i]) => Ge(ret[1][i], F(0)) /\ Le(ret[1][i], F(100))
        /\ (/\ call.period > 0
            /\ \A i \in DOMAIN call.data :
                  IsFin(call.data[i]) /\ call.data[i] = call.data[1])
              => \A i \in call.period..(Len(call.data) - 1) : At(ret[1], i) = F(100)

\* rsi has returned a value strictly between 0 and 100: the window held a
\* gain and a loss
C13_Witness ==
    /\ Returned("rsi")
    /\ \E i \in DOMAIN ret[1] :
          /\ ~is_nan(ret[1][i])
          /\ Gt(ret[1][i], F(0))
          /\ Lt(ret[1][i], F(100))

\* a or b is NaN at index i or, when there is one, at index i - 1
UndefinedAround(a, b, i) ==
    \/ is_nan(At(a, i)) \/ is_nan(At(b, i))
    \/ i >= 1 /\ (is_nan(At(a, i - 1)) \/ is_nan(At(b, i - 1)))

\* C14: on two series of one length, crossed_above and crossed_below are
\* never both true at an index, and both are false wherever a or b is NaN at
\* the index or the one before
C14_CrossesExclusive ==
    /\ Returned("crossed_above") =>
          \A i \in 0..(Len(call.a) - 1) :
              /\ ~(At(ret[1], i) /\ At(crossed_below(call.a, call.b), i))
              /\ UndefinedAround(call.a, call.b, i) => ~At(ret[1], i)
    /\ Returned("crossed_below") =>
          \A i \in 0..(Len(call.a) - 1) :
              /\ ~(At(ret[1], i) /\ At(crossed_above(call.a, call.b), i))
              /\ UndefinedAround(call.a, call.b, i) => ~At(ret[1], i)

\* crossed_above has returned true at index 2 of series of which one is NaN
\* at index 0, where crossed_below is true at index 1
C14_Witness ==
    /\ Returned("crossed_above")
    /\ Len(call.a) = 3
    /\ is_nan(At(call.a, 0))
    /\ ~At(ret[1], 1)
    /\ At(ret[1], 2)

\* C15: crossed_above is true at i exactly when i >= 1, the four values are
\* defined, a[i-1] <= b[i-1] and a[i] > b[i]; crossed_below exactly when
\* i >= 1, the four are defined, a[i-1] >= b[i-1] and a[i] < b[i], which is
\* crossed_above with the series exchanged; the pair of test_crossed_above
\* gives [false, false, true, false]
C15_CrossIsStrictFlip ==
    /\ Returned("crossed_above") =>
          /\ Len(ret[1]) = Len(call.a)
          /\ \A i \in 0..(Len(call.a) - 1) :
                At(ret[1], i) <=>
                    /\ i >= 1
                    /\ ~UndefinedAround(call.a, call.b, i)
                    /\ Le(At(call.a, i - 1), At(call.b, i - 1))
                    /\ Gt(At(call.a, i), At(call.b, i))
          /\ (call.a = <<F(1), F(2), F(3), F(4)>> /\ call.b = <<F(2), F(2), F(2), F(2)>>)
                => ret[1] = <<FALSE, FALSE, TRUE, FALSE>>
    /\ Returned("crossed_below") =>
          /\ ret[1] = crossed_above(call.b, call.a)
          /\ \A i \in 0..(Len(call.a) - 1) :
                At(ret[1], i) <=>
                    /\ i >= 1
                    /\ ~UndefinedAround(call.a, call.b, i)
                    /\ Ge(At(call.a, i - 1), At(call.b, i - 1))
                    /\ Lt(At(call.a, i), At(call.b, i))

\* crossed_above of the pair of test_crossed_above has returned
C15_Witness ==
    /\ Returned("crossed_above")
    /\ call.a = <<F(1), F(2), F(3), F(4)>>
    /\ call.b = <<F(2), F(2), F(2), F(2)>>
    /\ ret[1] = <<FALSE, FALSE, TRUE, FALSE>>

\* monthly_gap_drop has returned for a February that opens at 90 after a
\* January close of 100, with gap_pct = 5
GapScenario ==
    /\ Returned("evaluate_pattern")
    /\ call \in GapCalls
    /\ At(call.data.open, 2) = F(90)

\* the candle the caller asked for, as written ("any" when absent or not a
\* string)
CandleAsked == get_str(call.params, "candle", "any")

\* February closes below its open
ClosesBelowOpen == Lt(At(call.data.close, 3), At(call.data.open, 2))

\* the mask at February's first trading index
FiresAtMonthStart == ret[1] # None /\ ret[1][1].ok /\ At(ret[1][1].v, 2)

\* C16 as stated: candle = "bearish" fires at the month's first index iff the
\* month closes below its open, candle = "bullish" does not fire when it
\* closes below its open, and any other candle value is not tested
C16_AnyOtherCandleUntested ==
    GapScenario =>
        CASE CandleAsked = "bearish" -> FiresAtMonthStart <=> ClosesBelowOpen
          [] CandleAsked = "bullish" -> ClosesBelowOpen => ~FiresAtMonthStart
          [] OTHER -> FiresAtMonthStart

\* C16 (amended): the same with candle compared in lower case: a candle that
\* is "bearish" or "bullish" in any letter case is tested, and only a candle
\* that is absent, not a string, or another string is not
C16_CandleFilter ==
    GapScenario =>
        CASE to_lowercase(CandleAsked) = "bearish" -> FiresAtMonthStart <=> ClosesBelowOpen
          [] to_lowercase(CandleAsked) = "bullish" -> ClosesBelowOpen => ~FiresAtMonthStart
          [] OTHER -> FiresAtMonthStart

\* candle = "bearish" has fired on the first day of a February that closes at
\* 80 and on no other day
C16_Witness ==
    /\ GapScenario
    /\ CandleAsked = "bearish"
    /\ ClosesBelowOpen
    /\ ret = Some(Some(Ok(<<FALSE, FALSE, TRUE, FALSE>>)))

\* C17: no step of a scan, whichever worker takes it and however many scans
\* came before, changes the set of tickers of the universe or any ticker's
\* date, open, high, low, close or volume series
C17_UniverseIsReadOnly ==
    [][/\ DOMAIN universe' = DOMAIN universe
       /\ \A t \in DOMAIN universe :
             /\ universe'[t].date = universe[t].date
             /\ universe'[t].open = universe[t].open
             /\ universe'[t].high = universe[t].high
             /\ universe'[t].low = universe[t].low
             /\ universe'[t].close = universe[t].close
             /\ universe'[t].volume = universe[t].volume]_vars

\* a second scan of a universe of two tickers has found matches
C17_Witness ==
    /\ pc = "done"
    /\ prev # None
    /\ Cardinality(DOMAIN universe) = 2
    /\ Len(result.matches) > 0

\* the value v is not of the type read where the default is d
WrongType(v, d) ==
    CASE d.t = "uint" -> v.t # "uint"
      [] d.t = "float" -> v.t \notin {"uint", "int", "float"}
      [] OTHER -> v.t # d.t

\* params with key k set to v
SetKey(params, k, v) == [x \in DOMAIN params \cup {k} |-> IF x = k THEN v ELSE params[x]]

\* C18: for every built-in pattern and every key it reads, params in which
\* the key is absent or holds a value of the wrong type give the outcome of
\* the same params with the key set to the pattern's default
C18_MistypedIsDefault ==
    (Returned("evaluate_pattern") /\ call \in MistypedCalls) =>
        \A k \in DOMAIN ParamDefaults(call.scan_type) :
            (k \notin DOMAIN call.params
             \/ WrongType(call.params[k], ParamDefaults(call.scan_type)[k]))
                => ret[1] = evaluate_pattern(call.scan_type, call.data,
                                             SetKey(call.params, k,
                                                    ParamDefaults(call.scan_type)[k]),
                                             overflow_checks)

\* rsi_oversold asked with period 2.5 has fired where period 14 fires
C18_Witness ==
    /\ Returned("evaluate_pattern")
    /\ call.scan_type = "rsi_oversold"
    /\ call.data = Wave
    /\ call.params = [x \in {"period"} |-> JFloat(Fl(5, 2))]
    /\ ret[1][1].ok
    /\ {i \in 0..59 : At(ret[1][1].v, i)} = {36}

\* an RSI pattern has returned
RsiPatternReturned ==
    /\ Returned("evaluate_pattern")
    /\ call.scan_type \in {"rsi_oversold", "rsi_overbought"}

\* the RSI series and the threshold of the call
RsiOfCall == rsi(call.data.close, get_u64(call.params, "period", 14))

ThresholdOfCall ==
    get_f64(call.params, "threshold", IF call.scan_type = "rsi_oversold" THEN F(30) ELSE F(70))

\* r crosses th at i in the direction of the pattern
RsiCrosses(r, th, i) ==
    /\ i >= 1
    /\ ~is_nan(At(r, i)) /\ ~is_nan(At(r, i - 1))
    /\ IF call.scan_type = "rsi_oversold"
       THEN Lt(At(r, i), th) /\ Ge(At(r, i - 1), th)
       ELSE Gt(At(r, i), th) /\ Le(At(r, i - 1), th)

\* r is beyond th at i in the direction of the pattern
RsiBeyond(r, th, i) ==
    IF call.scan_type = "rsi_oversold" THEN Lt(At(r, i), th) ELSE Gt(At(r, i), th)

\* C19: the mask of rsi_oversold is true at i iff RSI is defined at i and
\* i-1, RSI[i] < threshold and RSI[i-1] >= threshold (rsi_overbought: > and
\* <=); within a run of bars beyond the threshold no bar after the first
\* fires, and the mask is never true at two consecutive indices
C19_RsiFiresOnCrossing ==
    RsiPatternReturned =>
        \A r \in {RsiOfCall} : \A th \in {ThresholdOfCall} :
            /\ ret[1][1].ok
            /\ Len(ret[1][1].v) = Len(call.data.close)
            /\ \A i \in 0..(Len(call.data.close) - 1) :
                  /\ At(ret[1][1].v, i) <=> RsiCrosses(r, th, i)
                  /\ (i >= 1 /\ RsiBeyond(r, th, i) /\ RsiBeyond(r, th, i - 1))
                        => ~At(ret[1][1].v, i)
                  /\ i >= 1 => ~(At(ret[1][1].v, i) /\ At(ret[1][1].v, i - 1))

\* rsi_oversold has fired at the first bar only of a run of bars with RSI
\* under 30
C19_Witness ==
    /\ RsiPatternReturned
    /\ call.scan_type = "rsi_oversold"
    /\ call.data = Wave
    /\ call.params = DefaultParams
    /\ {i \in 0..59 : At(ret[1][1].v, i)} = {36}
    /\ \A i \in 36..39 : Lt(At(RsiOfCall, i), F(30))

\* the pattern names of the conditions list of the call
NamedConditions ==
    {custom_conditions(call.params)[j].s : j \in DOMAIN custom_conditions(call.params)}

\* the pattern called name, on the series and params of the call, is true at i
NamedMaskAt(name, i) ==
    \A m \in {evaluate_pattern(name, call.data, call.params, overflow_checks)} :
        m # None /\ m[1].ok /\ At(m[1].v, i)

\* C20: custom is true at i iff the mask of every pattern named in the
\* conditions list is true at i; an absent or empty list gives an all-false
\* mask
C20_CustomIsConjunction ==
    (Returned("evaluate_pattern") /\ call.scan_type = "custom" /\ call.data = Wave) =>
        /\ ret[1][1].ok
        /\ Len(ret[1][1].v) = Len(call.data.close)
        /\ \A i \in 0..(Len(call.data.close) - 1) :
              At(ret[1][1].v, i) <=>
                  /\ NamedConditions # {}
                  /\ \A name \in NamedConditions : NamedMaskAt(name, i)

\* C21: whenever a built-in pattern returns a mask for a series of n days, the
\* mask has exactly n entries, one per day, so that every index at which it is
\* true is an index of the date, open, high, low, close and volume columns
C21_MaskIsAligned ==
    (/\ Returned("evaluate_pattern")
     /\ call.scan_type \in BuiltIn
     /\ ret[1] # None
     /\ ret[1][1].ok) =>
        /\ Len(ret[1][1].v) = Len(call.data.close)
        /\ \A i \in 0..(Len(ret[1][1].v) - 1) :
              At(ret[1][1].v, i) =>
                  /\ i < Len(call.data.date)
                  /\ i < Len(call.data.open) /\ i < Len(call.data.high)
                  /\ i < Len(call.data.low) /\ i < Len(call.data.volume)

\* volume_spike on 60 days has returned a mask of 60 entries, true on the
\* two days of heavy volume
C21_Witness ==
    /\ Returned("evaluate_pattern")
    /\ call.scan_type = "volume_spike"
    /\ call.data = Wave
    /\ call.params = DefaultParams
    /\ ret[1][1].ok
    /\ Len(ret[1][1].v) = 60
    /\ {i \in 0..59 : At(ret[1][1].v, i)} = {29, 44}

\* the days start..end of the series of the call
DaysOf(bar) == bar.start_idx..bar.end_idx

\* C22: every bar of build_monthly_bars covers consecutive days that share
\* the first 7 characters of the date; its open is the open of its first day,
\* its close the close of its last day, its high the greatest and its low the
\* least daily high and low, its volume the sum of the daily volumes of
\* exactly its days; and two adjacent days are in different bars exactly when
\* their month keys differ
C22_MonthlyBarsAggregate ==
    Returned("build_monthly_bars") =>
        /\ \A k \in DOMAIN ret[1] : \A bar \in {ret[1][k]} :
              /\ bar.start_idx <= bar.end_idx
              /\ bar.end_idx < Len(call.data.close)
              /\ \A i \in DaysOf(bar) :
                    month_key(At(call.data.date, i))
                        = month_key(At(call.data.date, bar.start_idx))
              /\ bar.open = At(call.data.open, bar.start_idx)
              /\ bar.close = At(call.data.close, bar.end_idx)
              /\ \E i \in DaysOf(bar) : bar.high = At(call.data.high, i)
              /\ \A i \in DaysOf(bar) : Ge(bar.high, At(call.data.high, i))
              /\ \E i \in DaysOf(bar) : bar.low = At(call.data.low, i)
              /\ \A i \in DaysOf(bar) : Le(bar.low, At(call.data.low, i))
              /\ bar.volume = SumRange(call.data.volume, bar.start_idx + 1, bar.end_idx + 1,
                                       At(call.data.volume, bar.start_idx))
        /\ \A i \in 1..(Len(call.data.close) - 1) :
              (month_key(At(call.data.date, i)) # month_key(At(call.data.date, i - 1)))
                  <=> \E k \in 1..(Len(ret[1]) - 1) :
                          ret[1][k].end_idx = i - 1 /\ ret[1][k + 1].start_idx = i

\* two days of January and two of February have given two bars of two days
\* each, whose high is not the high of the first or of the last day alone
C22_Witness ==
    /\ Returned("build_monthly_bars")
    /\ call.data.date
          = <<Date(2024, 1, 30), Date(2024, 1, 31), Date(2024, 2, 1), Date(2024, 2, 1)>>
    /\ Len(ret[1]) = 2
    /\ ret[1][1].end_idx = 1
    /\ ret[1][2].start_idx = 2
    /\ ret[1][1].close # At(call.data.close, 0)
    /\ ret[1][1].high # At(call.data.high, 1)
    /\ ret[1][1].volume # At(call.data.volume, 0)

\* C29: the bars of a series of n >= 1 days partition 0..n-1: the first
\* starts at 0, the last ends at n-1, each has start_idx <= end_idx, each next
\* one starts right after the one before and has another month key; a series
\* of no days gives no bars
C29_BarsPartitionTheSeries ==
    Returned("build_monthly_bars") =>
        IF Len(call.data.close) = 0 THEN ret[1] = <<>>
        ELSE /\ Len(ret[1]) >= 1
             /\ ret[1][1].start_idx = 0
             /\ ret[1][Len(ret[1])].end_idx = Len(call.data.close) - 1
             /\ \A k \in DOMAIN ret[1] : ret[1][k].start_idx <= ret[1][k].end_idx
             /\ \A k \in 1..(Len(ret[1]) - 1) :
                   /\ ret[1][k + 1].start_idx = ret[1][k].end_idx + 1
                   /\ month_key(At(call.data.date, ret[1][k + 1].start_idx))
                         # month_key(At(call.data.date, ret[1][k].start_idx))

\* four days in January, February, February, January have given three bars
C29_Witness ==
    /\ Returned("build_monthly_bars")
    /\ call.data.date
          = <<Date(2024, 1, 31), Date(2024, 2, 1), Date(2024, 2, 1), Date(2024, 1, 30)>>
    /\ Len(ret[1]) = 3
    /\ ret[1][2].start_idx = 1
    /\ ret[1][2].end_idx = 2
    /\ ret[1][3].end_idx = 3

\* the window of lookback values before index i
PriorWindow(i) == (i - call.lookback)..(i - 1)

GapOfCall ==
    Mul(Div(Sub(At(call.data.open, 2), At(call.data.close, 1)), At(call.data.close, 1)),
        F(100))

\* -|gap_pct| of the call
ThresholdOfGap == Neg(FAbs(get_f64(call.params, "gap_pct", F(5))))

\* C24: monthly_gap_drop flags a month only if (open - prevClose) / prevClose
\* * 100 is strictly below -|gap_pct|: a gap of exactly -|gap_pct| percent, a
\* smaller gap, a gap up or a prior close of 0 does not fire
C24_FiresOnlyBeyondThreshold ==
    (Returned("evaluate_pattern") /\ call \in ThresholdCalls) =>
        /\ FiresAtMonthStart => Lt(GapOfCall, ThresholdOfGap)
        /\ Eq(GapOfCall, ThresholdOfGap) => ~FiresAtMonthStart
        /\ Eq(At(call.data.close, 1), F(0)) => ~FiresAtMonthStart

\* event_on of the call asks for the month's last trading day
AsksForMonthEnd ==
    /\ "event_on" \in DOMAIN call.params
    /\ call.params["event_on"].t = "str"
    /\ call.params["event_on"].s \in {"end", "close", "END", "Close"}

\* the indices of the days of bar at which the returned mask is true
FiredIn(bar) == {i \in DaysOf(bar) : At(ret[1][1].v, i)}

\* C25: monthly_gap_drop is true on at most one index of a month: its last
\* trading index when event_on is "end" or "close" in any letter case, its
\* first trading index otherwise; it is true on no index of the first month,
\* and on no index at all of a series of fewer than two months
C25_OneIndexPerMonth ==
    (Returned("evaluate_pattern") /\ call \in EventCalls) =>
        \A bars \in {build_monthly_bars(call.data)} :
            /\ ret[1][1].ok
            /\ Len(bars) < 2 => ret[1][1].v = Fill(FALSE, Len(call.data.close))
            /\ \A k \in DOMAIN bars :
                  /\ k = 1 => FiredIn(bars[k]) = {}
                  /\ FiredIn(bars[k]) \subseteq
                        {IF AsksForMonthEnd THEN bars[k].end_idx ELSE bars[k].start_idx}

\* with event_on = "END", February and March have fired on their last days
C25_Witness ==
    /\ Returned("evaluate_pattern")
    /\ call \in EventCalls
    /\ call.params = [k \in {"gap_pct", "event_on"} |->
                         IF k = "gap_pct" THEN JUInt(25) ELSE JStr("END")]
    /\ Len(call.data.close) = 6
    /\ ret = Some(Some(Ok(<<FALSE, FALSE, FALSE, TRUE, FALSE, TRUE>>)))

\* bullish_engulfing_oversold has returned
EngulfingReturned ==
    /\ Returned("evaluate_pattern")
    /\ call.scan_type = "bullish_engulfing_oversold"

\* the earliest index of the RSI window of bar i: max(0, i - lookback)
OversoldFrom(i) ==
    IF i - get_u64(call.params, "lookback", 5) > 0
    THEN i - get_u64(call.params, "lookback", 5) ELSE 0

\* C26: bullish_engulfing_oversold is true at i iff i >= 1, bar i-1 is red,
\* bar i is green, open[i] <= close[i-1] and close[i] >= open[i-1], and RSI
\* is defined and below rsi_threshold at some j with
\* max(0, i - lookback) <= j <= i - 1
C26_EngulfingAfterOversold ==
    EngulfingReturned =>
        \A r \in {rsi(call.data.close, get_u64(call.params, "rsi_period", 14))} :
        \A th \in {get_f64(call.params, "rsi_threshold", F(30))} :
            /\ ret[1][1].ok
            /\ \A i \in 0..(Len(call.data.close) - 1) :
                  At(ret[1][1].v, i) <=>
                      /\ i >= 1
                      /\ Lt(At(call.data.close, i - 1), At(call.data.open, i - 1))
                      /\ Gt(At(call.data.close, i), At(call.data.open, i))
                      /\ Le(At(call.data.open, i), At(call.data.close, i - 1))
                      /\ Ge(At(call.data.close, i), At(call.data.open, i - 1))
                      /\ \E j \in OversoldFrom(i)..(i - 1) :
                            ~is_nan(At(r, j)) /\ Lt(At(r, j), th)

\* a green bar that engulfs a red one has fired on an RSI of the bar before,
\* with the RSI of its own bar at or above the threshold
C26_Witness ==
    /\ EngulfingReturned
    /\ call.data.close = <<F(3), F(1), F(3)>>
    /\ call.data.open = <<F(3), F(3), F(1)>>
    /\ get_u64(call.params, "rsi_period", 14) = 1
    /\ get_u64(call.params, "lookback", 5) = 1
    /\ ret = Some(Some(Ok(<<FALSE, FALSE, TRUE>>)))
    /\ Ge(At(rsi(call.data.close, 1), 2), get_f64(call.params, "rsi_threshold", F(30)))

\* C27: with the registry empty, a scan for a name that is not built in never
\* panics and, once done, has no matches, tickers_with_matches = 0 and
\* total_tickers_scanned equal to the size of the universe
C27_UnknownNameMatchesNothing ==
    (query.scan_type \notin BuiltIn) =>
        /\ pc # "panicked"
        /\ \A i \in DOMAIN slots : slots[i] = None
        /\ pc = "done" =>
              /\ result.matches = <<>>
              /\ result.tickers_with_matches = 0
              /\ result.total_tickers_scanned = Cardinality(DOMAIN universe)

\* a scan of two tickers for an unknown name is done
C27_Witness ==
    /\ pc = "done"
    /\ query.scan_type = "no_such_pattern"
    /\ Cardinality(DOMAIN universe) = 2
    /\ result.matches = <<>>
    /\ result.total_tickers_scanned = 2

\* C28: for a fully defined series of n >= slow + signal - 1 values, with
\* 0 < fast <= slow and signal > 0, macd_signal is defined at every index
\* >= slow + signal - 2
C28_SignalIsDefined ==
    (/\ Returned("macd_signal")
     /\ \A i \in DOMAIN call.data : IsFin(call.data[i])
     /\ 0 < call.fast /\ call.fast <= call.slow /\ call.signal > 0
     /\ Len(call.data) >= call.slow + call.signal - 1) =>
        \A i \in 0..(Len(call.data) - 1) :
            i >= call.slow + call.signal - 2 => ~is_nan(At(ret[1], i))

\* the series indices at which the ticker of the match m has the date of m
IndicesOf(m) ==
    {i \in 0..(Len(universe[m.ticker].date) - 1) : At(universe[m.ticker].date, i) = m.date}

\* C30: in the result of a scan the matches of one ticker are contiguous and
\* in strictly increasing order of series index, so that no (ticker, index)
\* pair appears twice, in whatever order the evaluations completed
C30_MatchesGroupedAndOrdered ==
    (pc = "done") =>
        \A a \in DOMAIN result.matches : \A b \in DOMAIN result.matches :
            (a < b /\ result.matches[a].ticker = result.matches[b].ticker) =>
                /\ \A c \in a..b : result.matches[c].ticker = result.matches[a].ticker
                /\ \A i \in IndicesOf(result.matches[a]) :
                   \A j \in IndicesOf(result.matches[b]) : i < j

\* a scan of two tickers is done with several matches of the first and a
\* match of the second
C30_Witness ==
    /\ pc = "done"
    /\ Len(result.matches) >= 3
    /\ result.matches[1].ticker = result.matches[2].ticker
    /\ result.matches[1].date # result.matches[2].date
    /\ result.matches[Len(result.matches)].ticker # result.matches[1].ticker

====
